---- MODULE Spec2Model ----
(***************************************************************************)
(* BitPaper: a file <-> printable bit-grid codec.                          *)
(*                                                                         *)
(* The module models src/bitpaper/core.py (the plain, multi-page codec),   *)
(* src/bitpaper/simple_interleaved_core.py (the encrypted, single-page     *)
(* codec) and src/bitpaper/memory_manager.py.  Byte strings are sequences  *)
(* of integers 0..255, bitstreams (Python strings of '0' and '1') are      *)
(* sequences over {0, 1}.  Python indices are 0-based; At0 reads them.     *)
(***************************************************************************)
EXTENDS Integers, Sequences, FiniteSets, TLC

VARIABLES
    il_pc,       \* interleaver harness: "idle", "interleaved" or "deinterleaved"
    il_src,      \* the bit sequence last given to _simple_interleave
    il_mid,      \* its interleaved form
    il_enc,      \* the encoder's _simple_deinterleave of il_mid
    il_dec,      \* the decoder's _simple_deinterleave of il_mid
    conf,        \* the configuration the BitPaperEncoder and BitPaperDecoder share
    ns_pc,       \* where the plain codec's run stands
    ns_file,     \* the file given to file_to_bitstream_pages: [name, data]
    ns_raised,   \* the compressors that raised during that call
    ns_enc,      \* what file_to_bitstream_pages did: status, pages, ...
    ns_images,   \* the images rendered from the pages, in order
    ns_stream,   \* the bitstream handed to bitstream_to_data
    ns_result,   \* what bitstream_to_data did
    gr_pc,       \* grid harness: "idle", "rendered" or "read"
    gr_bits,     \* the bitstream given to bitstream_to_image
    gr_image,    \* the image it returned
    gr_read,     \* what image_to_bitstream read back from it
    se_pc,       \* where the secure codec's run stands ("supplied_raw" and
                 \* "decoded_raw" when the stream is not one the stages built)
    se_encoder,  \* the SimpleInterleavedBitPaperEncoder object's attributes
    se_decoder,  \* the SimpleInterleavedBitPaperDecoder object's attributes
    se_data,     \* the plaintext last given to the encoder's file_to_bitstream
    se_encode,   \* what that call did: [status, bitstream, stages]
    se_source,   \* who made the stream in se_stream: [password, iterations, data]
    se_stream,   \* the bitstream handed to the decoder's bitstream_to_data
    se_result,   \* what that call did: [status, data]
    pl_pc,       \* payload harness: "idle", "created" or "parsed"
    pl_in,       \* the arguments of _create_compact_payload
    pl_bytes,    \* the payload it returned
    pl_parsed,   \* what _parse_compact_payload read from it
    fe_pc,       \* FEC harness: "unbuilt", "idle", "encoded", "received", "decoded"
    fe_encoder,  \* the encoder object whose FEC methods are called
    fe_data,     \* the bytes given to _optimized_error_correction
    fe_out,      \* what it returned
    fe_in,       \* the bytes given to _optimized_error_correction_decode
    fe_dec,      \* what it returned
    sg_pc,       \* signature harness: "unbuilt", "idle", "signed", "verified"
    sg_encoder,  \* the signing encoder's attributes
    sg_decoder,  \* the verifying decoder's attributes
    sg_data,     \* the data given to _optimized_sign_data
    sg_signature, \* the signature it returned
    sg_seen,     \* what reaches _verify_signature: [data, signature]
    sg_verified, \* what _verify_signature returned
    mm_pool,     \* memory_manager.object_pools['bytearray'], left end first
    mm_held,     \* the bytearrays callers hold after get_object
    mm_calls,    \* the pool calls made so far, in order
    mm_pc,       \* "idle", or "converted" after _optimized_bytes_to_bitstream
    mm_data,     \* the bytes given to _optimized_bytes_to_bitstream
    mm_result,   \* what it returned: [status, val]
    cc_encoder,  \* the encoder object the threads share
    cc_decoder,  \* the decoder object the threads share
    cc_pool,     \* the global pool's 'bytearray' deque
    cc_owners,   \* for each pooled bytearray, the thread that returned it
    cc_writer,   \* the thread that last wrote _cached_cipher and
                 \* _last_data_size; 0 is the constructor
    cc_history,  \* len(memory_monitor.memory_history)
    cc_threads   \* each thread's call: arguments, position, locals, outcome

ilvars == <<il_pc, il_src, il_mid, il_enc, il_dec>>

corevars == <<conf, ns_pc, ns_file, ns_raised, ns_enc, ns_images, ns_stream, ns_result>>

gridvars == <<gr_pc, gr_bits, gr_image, gr_read>>

securevars ==
    <<se_pc, se_encoder, se_decoder, se_data, se_encode, se_source, se_stream, se_result>>

payloadvars == <<pl_pc, pl_in, pl_bytes, pl_parsed>>

fecvars == <<fe_pc, fe_encoder, fe_data, fe_out, fe_in, fe_dec>>

signvars ==
    <<sg_pc, sg_encoder, sg_decoder, sg_data, sg_signature, sg_seen, sg_verified>>

poolvars == <<mm_pool, mm_held, mm_calls, mm_pc, mm_data, mm_result>>

basevars == <<ilvars, corevars, gridvars, securevars, payloadvars>>

concvars ==
    <<cc_encoder, cc_decoder, cc_pool, cc_owners, cc_writer, cc_history, cc_threads>>

latervars == <<fecvars, signvars, poolvars, concvars>>

vars == <<basevars, latervars>>

(***************************************************************************)
(* Bounds of the model.                                                    *)
(***************************************************************************)
MaxBits == 7          \* longest bit sequence given to the interleaver

MaxData == 2          \* longest file content, in bytes

MaxGridBits == 5      \* longest arbitrary bitstream rendered by the grid harness

MaxSecureData == 2    \* longest plaintext given to the secure codec, in bytes

MaxField == 2         \* longest signature and ciphertext given to the payload codec

MaxFecData == 2       \* longest exhaustively enumerated input of the FEC stage

MaxSignData == 1      \* longest exhaustively enumerated input of the signer

MaxPoolCalls == 3     \* most get_object, return_object and cleanup_pools calls in a run

MaxPoolData == 2      \* longest input of the pooled bit packing, in bytes

MaxRawBits == 8       \* longest arbitrary bitstream given to the secure decoder

MaxThreads == 2       \* threads that call the shared encoder and decoder

\* The sheet of the source is 2480 x 3508 pixels with a pretty-mode margin of
\* 100; the model keeps the layout rules on a sheet small enough to enumerate.
SheetWidth == 15

SheetHeight == 12

Margin == 4

(***************************************************************************)
(* Generic helpers.                                                        *)
(***************************************************************************)
Unset == -1           \* the '' placeholder of a pre-allocated Python list

At0(s, i) == s[i + 1]

Min(a, b) == IF a < b THEN a ELSE b

Max(a, b) == IF a > b THEN a ELSE b

\* s[a:b] of Python for 0 <= a: an out-of-range slice is clipped, never an error
Slice(s, a, b) ==
    LET hi == Min(b, Len(s))
    IN  IF a >= hi THEN <<>> ELSE [k \in 1..(hi - a) |-> s[a + k]]

\* range(start, stop, step) as a sequence
Range(start, stop, step) ==
    IF start >= stop THEN <<>>
    ELSE [k \in 1..(((stop - start - 1) \div step) + 1) |-> start + (k - 1) * step]

\* ''.join(list): the '' placeholders contribute nothing
Join(list) == SelectSeq(list, LAMBDA x : x # Unset)

RECURSIVE Concat(_)
Concat(ss) == IF ss = <<>> THEN <<>> ELSE Head(ss) \o Concat(Tail(ss))

\* sum(s), by halves so that long sequences stay within the evaluation depth
RECURSIVE SumSeq(_)
SumSeq(s) ==
    IF s = <<>> THEN 0
    ELSE IF Len(s) = 1 THEN s[1]
    ELSE LET h == Len(s) \div 2
         IN  SumSeq(SubSeq(s, 1, h)) + SumSeq(SubSeq(s, h + 1, Len(s)))

BitSeqs(n) == UNION {[1..k -> {0, 1}] : k \in 0..n}

(***************************************************************************)
(* Interleaver (simple_interleaved_core.py).                               *)
(***************************************************************************)
\* the bits appended by one "for i in range(k, len, 3)" loop
StrideGroup(bitstream, k) ==
    LET idx == Range(k, Len(bitstream), 3)
    IN  [j \in 1..Len(idx) |-> At0(bitstream, idx[j])]

\* the three loops in the order 0, 2, 1
SimpleInterleaveSwapped(bitstream) ==
    IF Len(bitstream) <= 1 THEN bitstream
    ELSE StrideGroup(bitstream, 0) \o StrideGroup(bitstream, 2) \o StrideGroup(bitstream, 1)

\* SimpleInterleavedBitPaperEncoder._simple_interleave
_simple_interleave(bitstream) ==
    IF Len(bitstream) <= 1 THEN bitstream
    ELSE StrideGroup(bitstream, 0) \o StrideGroup(bitstream, 1) \o StrideGroup(bitstream, 2)

\* the second group sized without the remainder: group_size bits instead of
\* group_size + 1 when the length is 2 modulo 3
DeinterleaveLoopsShortGroup(bitstream) ==
    LET total_bits == Len(bitstream)
        group_size == total_bits \div 3
        remainder  == total_bits % 3
        n1     == group_size + (IF remainder > 0 THEN 1 ELSE 0)
        n2     == group_size
        start2 == n1
        start3 == start2 + n2
        Cell(p) ==
            LET i == p \div 3
            IN  CASE p % 3 = 0 ->
                       IF i < n1 /\ i < total_bits THEN At0(bitstream, i) ELSE Unset
                  [] p % 3 = 1 ->
                       IF i < n2 /\ start2 + i < total_bits /\ i * 3 + 1 < total_bits
                       THEN At0(bitstream, start2 + i) ELSE Unset
                  [] OTHER ->
                       IF i < group_size /\ start3 + i < total_bits /\ i * 3 + 2 < total_bits
                       THEN At0(bitstream, start3 + i) ELSE Unset
    IN  Join([q \in 1..total_bits |-> Cell(q - 1)])

\* The three loops of _simple_deinterleave write disjoint index classes of the
\* pre-allocated list "original"; a position no loop writes keeps ''.
DeinterleaveLoops(bitstream) ==
    LET total_bits == Len(bitstream)
        group_size == total_bits \div 3
        remainder  == total_bits % 3
        n1     == group_size + (IF remainder > 0 THEN 1 ELSE 0)
        n2     == group_size + (IF remainder > 1 THEN 1 ELSE 0)
        start2 == n1
        start3 == start2 + n2
        Cell(p) ==
            LET i == p \div 3
            IN  CASE p % 3 = 0 ->
                       IF i < n1 /\ i < total_bits THEN At0(bitstream, i) ELSE Unset
                  [] p % 3 = 1 ->
                       IF i < n2 /\ start2 + i < total_bits /\ i * 3 + 1 < total_bits
                       THEN At0(bitstream, start2 + i) ELSE Unset
                  [] OTHER ->
                       IF i < group_size /\ start3 + i < total_bits /\ i * 3 + 2 < total_bits
                       THEN At0(bitstream, start3 + i) ELSE Unset
    IN  Join([q \in 1..total_bits |-> Cell(q - 1)])

\* SimpleInterleavedBitPaperEncoder._simple_deinterleave
Enc_simple_deinterleave(bitstream) ==
    IF Len(bitstream) <= 1 THEN bitstream ELSE DeinterleaveLoops(bitstream)

\* SimpleInterleavedBitPaperDecoder._simple_deinterleave (the same text)
Dec_simple_deinterleave(bitstream) ==
    IF Len(bitstream) <= 1 THEN bitstream ELSE DeinterleaveLoops(bitstream)

(***************************************************************************)
(* Bytes and bits.                                                         *)
(***************************************************************************)
\* int.to_bytes(width, 'big'); OverflowError is reported by ToBytesFits
RECURSIVE ToBytes(_, _)
ToBytes(n, width) ==
    IF width = 0 THEN <<>> ELSE Append(ToBytes(n \div 256, width - 1), n % 256)

ToBytesFits(n, width) == n < 256 ^ width

\* int.from_bytes(b, 'big'); the empty byte string gives 0
RECURSIVE FromBytes(_)
FromBytes(b) ==
    IF b = <<>> THEN 0 ELSE FromBytes(SubSeq(b, 1, Len(b) - 1)) * 256 + b[Len(b)]

\* (byte >> (7 - j)) & 1
BitOf(byte, j) == (byte \div (2 ^ (7 - j))) % 2

\* the bit order reversed within each byte: (byte >> j) & 1
BytesToBitstreamLsbFirst(data) ==
    [k \in 1..(Len(data) * 8) |-> BitOf(data[((k - 1) \div 8) + 1], 7 - ((k - 1) % 8))]

\* BitPaperEncoder._bytes_to_bitstream: 8 bits per byte, most significant first
_bytes_to_bitstream(data) ==
    [k \in 1..(Len(data) * 8) |-> BitOf(data[((k - 1) \div 8) + 1], (k - 1) % 8)]

\* int(byte_str, 2) of an 8-character string
BitsValue(byte_str) ==
    SumSeq([j \in 1..Len(byte_str) |-> byte_str[j] * (2 ^ (Len(byte_str) - j))])

\* the byte loop of BitPaperDecoder.bitstream_to_data: a trailing group of
\* fewer than 8 bits is dropped
CoreBitsToBytes(bitstream) ==
    LET starts == Range(0, Len(bitstream), 8)
        groups == [k \in 1..Len(starts) |-> Slice(bitstream, starts[k], starts[k] + 8)]
        full   == SelectSeq(groups, LAMBDA g : Len(g) = 8)
    IN  [k \in 1..Len(full) |-> BitsValue(full[k])]

\* str.encode('utf-8') on code points below 2048
RECURSIVE Utf8Encode(_)
Utf8Encode(name) ==
    IF name = <<>> THEN <<>>
    ELSE LET c == Head(name)
         IN  (IF c < 128 THEN <<c>> ELSE <<192 + (c \div 64), 128 + (c % 64)>>)
             \o Utf8Encode(Tail(name))

\* bytes.decode('utf-8') for one- and two-byte sequences; anything else is a
\* UnicodeDecodeError
RECURSIVE Utf8Decode(_)
Utf8Decode(b) ==
    IF b = <<>> THEN [ok |-> TRUE, val |-> <<>>]
    ELSE IF b[1] < 128
         THEN LET r == Utf8Decode(Tail(b))
              IN  [ok |-> r.ok, val |-> IF r.ok THEN <<b[1]>> \o r.val ELSE <<>>]
    ELSE IF b[1] >= 194 /\ b[1] < 224 /\ Len(b) >= 2 /\ b[2] >= 128 /\ b[2] < 192
         THEN LET r == Utf8Decode(Tail(Tail(b)))
              IN  [ok |-> r.ok,
                   val |-> IF r.ok THEN <<(b[1] - 192) * 64 + (b[2] - 128)>> \o r.val
                           ELSE <<>>]
    ELSE [ok |-> FALSE, val |-> <<>>]

(***************************************************************************)
(* The three library compressors.  Each is a lossless container with a     *)
(* format magic, a body and a checksum; decompression rejects a wrong      *)
(* magic, a truncated body and a wrong checksum, and ignores bytes after   *)
(* the end of the stream.  Their output sizes depend on the data: the zlib *)
(* stand-in stores, the lzma stand-in run-length codes, the bz2 stand-in   *)
(* run-length codes the byte differences.                                  *)
(***************************************************************************)
Algorithms == <<"zlib", "lzma", "bz2">>

AlgorithmSet == {"zlib", "lzma", "bz2"}

Checksum(d) == SumSeq(d) % 256

\* run-length pairs <<count, byte, count, byte, ...>>
RECURSIVE RunLength(_)
RunLength(d) ==
    IF d = <<>> THEN <<>>
    ELSE LET rest == RunLength(Tail(d))
         IN  IF rest # <<>> /\ rest[2] = Head(d) /\ rest[1] < 255
             THEN <<rest[1] + 1>> \o Tail(rest)
             ELSE <<1, Head(d)>> \o rest

RECURSIVE RunExpand(_)
RunExpand(p) ==
    IF Len(p) < 2 THEN <<>>
    ELSE [k \in 1..p[1] |-> p[2]] \o RunExpand(Tail(Tail(p)))

Delta(d) == [k \in 1..Len(d) |-> (d[k] - (IF k = 1 THEN 0 ELSE d[k - 1])) % 256]

RECURSIVE Undelta(_, _)
Undelta(d, prev) ==
    IF d = <<>> THEN <<>>
    ELSE LET v == (prev + Head(d)) % 256 IN <<v>> \o Undelta(Tail(d), v)

ZlibMagic == 120

LzmaMagic == 253

Bz2Magic == 66

zlib_compress(d) == <<ZlibMagic, Len(d)>> \o d \o <<Checksum(d)>>

lzma_compress(d) ==
    LET body == RunLength(d)
    IN  <<LzmaMagic, 55, Len(body) \div 2>> \o body \o <<Checksum(d)>>

bz2_compress(d) ==
    LET body == RunLength(Delta(d))
    IN  <<Bz2Magic, Len(body) \div 2>> \o body \o <<Checksum(d)>>

Compressor(name, d) ==
    CASE name = "zlib" -> zlib_compress(d)
      [] name = "lzma" -> lzma_compress(d)
      [] OTHER         -> bz2_compress(d)

Failed == [ok |-> FALSE, val |-> <<>>]

Checked(d, tail) ==
    IF tail # <<>> /\ tail[1] = Checksum(d) THEN [ok |-> TRUE, val |-> d] ELSE Failed

zlib_decompress(c) ==
    IF Len(c) < 2 \/ c[1] # ZlibMagic \/ Len(c) < 2 + c[2] THEN Failed
    ELSE Checked(Slice(c, 2, 2 + c[2]), Slice(c, 2 + c[2], Len(c)))

lzma_decompress(c) ==
    IF Len(c) < 3 \/ c[1] # LzmaMagic \/ c[2] # 55 \/ Len(c) < 3 + 2 * c[3] THEN Failed
    ELSE Checked(RunExpand(Slice(c, 3, 3 + 2 * c[3])), Slice(c, 3 + 2 * c[3], Len(c)))

bz2_decompress(c) ==
    IF Len(c) < 2 \/ c[1] # Bz2Magic \/ Len(c) < 2 + 2 * c[2] THEN Failed
    ELSE Checked(Undelta(RunExpand(Slice(c, 2, 2 + 2 * c[2])), 0),
                 Slice(c, 2 + 2 * c[2], Len(c)))

(***************************************************************************)
(* BitPaperEncoder (core.py).  A configuration cfg is the record           *)
(* [cell_size, bits_per_row, max_rows, pretty_mode] both constructors      *)
(* store; border_width comes from Config and margin from pretty_mode.      *)
(***************************************************************************)
border_width == 3

MarginOf(cfg) == IF cfg.pretty_mode THEN Margin ELSE 0

\* max_cols and max_rows of the pretty layout
PrettyCols(cfg) == (SheetWidth - 2 * MarginOf(cfg)) \div cfg.cell_size

PrettyRows(cfg) == (SheetHeight - 2 * MarginOf(cfg)) \div cfg.cell_size

AlgoId(name) == CASE name = "zlib" -> 0 [] name = "lzma" -> 1 [] OTHER -> 2

\* the "for name, compressor in algorithms" loop; raised is the set of
\* compressors that raise on this call
RECURSIVE BestLoop(_, _, _, _)
BestLoop(i, data, raised, best) ==
    IF i > Len(Algorithms) THEN best
    ELSE LET name == Algorithms[i]
             compressed == Compressor(name, data)
         IN  IF name \in raised THEN BestLoop(i + 1, data, raised, best)
             ELSE IF ~best.found \/ Len(compressed) < best.size
                  THEN BestLoop(i + 1, data, raised,
                                [found |-> TRUE, name |-> name,
                                 size |-> Len(compressed), out |-> compressed])
                  ELSE BestLoop(i + 1, data, raised, best)

NoBest == [found |-> FALSE, name |-> "", size |-> 0, out |-> <<>>]

\* BitPaperEncoder._best_compression.  path is "best" when the loop chose a
\* compressor, "fallback" when best_result stayed None.
_best_compression(data, raised, fallback_raises) ==
    LET best == BestLoop(1, data, raised, NoBest)
    IN  IF ~best.found
        THEN IF fallback_raises
             THEN [ok |-> FALSE, path |-> "fallback", name |-> "zlib", val |-> <<>>]
             ELSE [ok |-> TRUE, path |-> "fallback", name |-> "zlib",
                   val |-> zlib_compress(data)]
        ELSE [ok |-> TRUE, path |-> "best", name |-> best.name,
              val |-> <<AlgoId(best.name)>> \o best.out]

EncoderBitsPerPage(cfg) ==
    IF cfg.pretty_mode THEN PrettyCols(cfg) * PrettyRows(cfg)
    ELSE cfg.bits_per_row * cfg.max_rows

\* a page loop that keeps only the pages it can fill
SplitPagesFullOnly(bitstream, bits_per_page) ==
    LET starts == Range(0, Len(bitstream) - bits_per_page + 1, bits_per_page)
    IN  [k \in 1..Len(starts) |-> Slice(bitstream, starts[k], starts[k] + bits_per_page)]

\* the "for i in range(0, len(bitstream), bits_per_page)" loop
SplitPages(bitstream, bits_per_page) ==
    LET starts == Range(0, Len(bitstream), bits_per_page)
    IN  [k \in 1..Len(starts) |-> Slice(bitstream, starts[k], starts[k] + bits_per_page)]

\* BitPaperEncoder.file_to_bitstream_pages on a file called name holding
\* file_data
file_to_bitstream_pages(cfg, name, file_data, raised, fallback_raises) ==
    LET filename == Utf8Encode(name)
        metadata_header == ToBytes(Len(filename), 1) \o filename
        combined_data == metadata_header \o file_data
        compressed == _best_compression(combined_data, raised, fallback_raises)
    IN  IF ~ToBytesFits(Len(filename), 1)
        THEN [status |-> "OverflowError", pages |-> <<>>, compressed |-> <<>>,
              path |-> "none", algorithm |-> "none"]
        ELSE IF ~compressed.ok
        THEN [status |-> "CompressError", pages |-> <<>>, compressed |-> <<>>,
              path |-> compressed.path, algorithm |-> "none"]
        ELSE [status |-> "ok",
              pages |-> SplitPages(_bytes_to_bitstream(compressed.val),
                                   EncoderBitsPerPage(cfg)),
              compressed |-> compressed.val,
              path |-> compressed.path, algorithm |-> compressed.name]

(***************************************************************************)
(* Grid mapper (core.py).  An image is a sequence of SheetHeight rows of   *)
(* SheetWidth grey values; pixel (x, y) is img[y + 1][x + 1].              *)
(***************************************************************************)
\* ImageDraw.rectangle(box, outline=0, width=border_width) on a white sheet:
\* the outline is drawn inside the box [bx0, by0, bx1, by1]
InOutline(x, y, bx0, by0, bx1, by1) ==
    /\ bx0 <= x /\ x <= bx1 /\ by0 <= y /\ y <= by1
    /\ \/ x < bx0 + border_width \/ x > bx1 - border_width
       \/ y < by0 + border_width \/ y > by1 - border_width

\* The colour of pixel (x, y) after the cell loop: each cell fills the
\* inclusive rectangle [cx, cy, cx + cell_size, cy + cell_size], so the last
\* cell drawn over a pixel decides it; ncols is bits_per_row or max_cols.
CellPixel(bitstream, cell_size, ncols, ox, oy, x, y, background) ==
    LET cols == {c \in 0..(ncols - 1) :
                    ox + c * cell_size <= x /\ x <= ox + (c + 1) * cell_size}
        rows == {r \in 0..((Len(bitstream) + ncols - 1) \div ncols) :
                    oy + r * cell_size <= y /\ y <= oy + (r + 1) * cell_size}
        over == {r * ncols + c : r \in rows, c \in cols} \cap 0..(Len(bitstream) - 1)
    IN  IF over = {} THEN background
        ELSE LET last == CHOOSE i \in over : \A j \in over : j <= i
             IN  IF At0(bitstream, last) = 1 THEN 0 ELSE 255

\* BitPaperEncoder._bitstream_to_simple_image
_bitstream_to_simple_image(cfg, bitstream) ==
    [yy \in 1..SheetHeight |-> [xx \in 1..SheetWidth |->
        CellPixel(bitstream, cfg.cell_size, cfg.bits_per_row,
                  border_width, border_width, xx - 1, yy - 1,
                  IF InOutline(xx - 1, yy - 1, 0, 0, SheetWidth - 1, SheetHeight - 1)
                  THEN 0 ELSE 255)]]

\* BitPaperEncoder._bitstream_to_pretty_image
_bitstream_to_pretty_image(cfg, bitstream) ==
    LET m == MarginOf(cfg)
    IN  [yy \in 1..SheetHeight |-> [xx \in 1..SheetWidth |->
            CellPixel(bitstream, cfg.cell_size, PrettyCols(cfg),
                      m + border_width, m + border_width, xx - 1, yy - 1,
                      IF InOutline(xx - 1, yy - 1, m, m, SheetWidth - m, SheetHeight - m)
                      THEN 0 ELSE 255)]]

\* BitPaperEncoder.bitstream_to_image
bitstream_to_image(cfg, bitstream) ==
    IF cfg.pretty_mode THEN _bitstream_to_pretty_image(cfg, bitstream)
    ELSE _bitstream_to_simple_image(cfg, bitstream)

NoLength == -1      \* expected_length=None

\* "if expected_length:" is false for None and for 0
Truthy(expected_length) == expected_length # NoLength /\ expected_length # 0

\* cell.mean() < 128 for the cell at (x, y) of data_region = img[y0:y1, x0:x1];
\* numpy clips both slices, and the mean of an empty cell is nan, which is
\* not below 128
CellIsDark(img, x0, y0, x1, y1, x, y, cell_size) ==
    LET xs == {px \in (x0 + x)..(x0 + x + cell_size - 1) : px < x1 /\ px < SheetWidth}
        ys == {py \in (y0 + y)..(y0 + y + cell_size - 1) : py < y1 /\ py < SheetHeight}
        row_sums == [py \in ys |-> SumSeq([k \in 1..Cardinality(xs) |->
                         img[py + 1][(x0 + x) + k]])]
        RECURSIVE Total(_)
        Total(S) == IF S = {} THEN 0
                    ELSE LET py == CHOOSE q \in S : TRUE
                         IN  row_sums[py] + Total(S \ {py})
    IN  /\ xs # {} /\ ys # {}
        /\ Total(ys) < 128 * Cardinality(xs) * Cardinality(ys)

\* the row/column loop shared by both decoders: rows * ncols cells in
\* row-major order, cut at expected_length as soon as it is reached
ReadGrid(img, x0, y0, x1, y1, cell_size, ncols, nrows, expected_length) ==
    LET bits == [k \in 1..(nrows * ncols) |->
                    IF CellIsDark(img, x0, y0, x1, y1,
                                  ((k - 1) % ncols) * cell_size,
                                  ((k - 1) \div ncols) * cell_size, cell_size)
                    THEN 1 ELSE 0]
    IN  IF Truthy(expected_length) THEN Slice(bits, 0, expected_length) ELSE bits

\* BitPaperDecoder._simple_image_to_bitstream
_simple_image_to_bitstream(cfg, img, expected_length) ==
    LET x0 == border_width
        y0 == border_width
        rows == IF Truthy(expected_length)
                THEN (expected_length + cfg.bits_per_row - 1) \div cfg.bits_per_row
                ELSE cfg.max_rows
    IN  ReadGrid(img, x0, y0, x0 + cfg.bits_per_row * cfg.cell_size,
                 y0 + cfg.max_rows * cfg.cell_size,
                 cfg.cell_size, cfg.bits_per_row, rows, expected_length)

\* BitPaperDecoder._pretty_image_to_bitstream
_pretty_image_to_bitstream(cfg, img, expected_length) ==
    LET max_cols == PrettyCols(cfg)
        max_rows == PrettyRows(cfg)
        x0 == MarginOf(cfg) + border_width
        y0 == MarginOf(cfg) + border_width
        rows == IF Truthy(expected_length)
                THEN (expected_length + max_cols - 1) \div max_cols
                ELSE max_rows
    IN  ReadGrid(img, x0, y0, x0 + max_cols * cfg.cell_size,
                 y0 + max_rows * cfg.cell_size,
                 cfg.cell_size, max_cols, rows, expected_length)

\* BitPaperDecoder.image_to_bitstream
image_to_bitstream(cfg, img, expected_length) ==
    IF cfg.pretty_mode THEN _pretty_image_to_bitstream(cfg, img, expected_length)
    ELSE _simple_image_to_bitstream(cfg, img, expected_length)

\* BitPaperDecoder.images_to_bitstream: every page is read with no
\* expected_length
images_to_bitstream(cfg, images) ==
    Concat([k \in 1..Len(images) |-> image_to_bitstream(cfg, images[k], NoLength)])

(***************************************************************************)
(* BitPaperDecoder.bitstream_to_data (core.py).                            *)
(***************************************************************************)
DecodeError(attempted) ==
    [status |-> "ValueError", data |-> <<>>, filename |-> <<>>, attempted |-> attempted]

\* an unknown id treated as "no id byte": the whole stream goes to zlib
BitstreamToDataLenient(bitstream) ==
    LET bytes_data == CoreBitsToBytes(bitstream)
    IN  IF bytes_data = <<>> THEN DecodeError("none")
        ELSE LET algo_id == bytes_data[1]
                 compressed_data == Tail(bytes_data)
                 attempted == CASE algo_id = 1 -> "lzma"
                                [] algo_id = 2 -> "bz2"
                                [] OTHER -> "zlib"
                 r == CASE algo_id = 0 -> zlib_decompress(compressed_data)
                        [] algo_id = 1 -> lzma_decompress(compressed_data)
                        [] algo_id = 2 -> bz2_decompress(compressed_data)
                        [] OTHER -> zlib_decompress(bytes_data)
             IN  IF ~r.ok \/ r.val = <<>> THEN DecodeError(attempted)
                 ELSE LET decompressed == r.val
                          filename_length == decompressed[1]
                          filename == Utf8Decode(Slice(decompressed, 1, 1 + filename_length))
                      IN  IF ~filename.ok THEN DecodeError(attempted)
                          ELSE [status |-> "ok",
                                data |-> Slice(decompressed, 1 + filename_length,
                                               Len(decompressed)),
                                filename |-> filename.val,
                                attempted |-> attempted]

\* "attempted" records which decompressor, if any, the call ran
bitstream_to_data(bitstream) ==
    LET bytes_data == CoreBitsToBytes(bitstream)
    IN  IF bytes_data = <<>> THEN DecodeError("none")
        ELSE LET algo_id == bytes_data[1]
                 compressed_data == Tail(bytes_data)
                 attempted == CASE algo_id = 0 -> "zlib"
                                [] algo_id = 1 -> "lzma"
                                [] algo_id = 2 -> "bz2"
                                [] OTHER -> "none"
                 r == CASE algo_id = 0 -> zlib_decompress(compressed_data)
                        [] algo_id = 1 -> lzma_decompress(compressed_data)
                        [] algo_id = 2 -> bz2_decompress(compressed_data)
                        [] OTHER -> Failed
             IN  IF ~r.ok \/ r.val = <<>> THEN DecodeError(attempted)
                 ELSE LET decompressed == r.val
                          filename_length == decompressed[1]
                          filename == Utf8Decode(Slice(decompressed, 1, 1 + filename_length))
                      IN  IF ~filename.ok THEN DecodeError(attempted)
                          ELSE [status |-> "ok",
                                data |-> Slice(decompressed, 1 + filename_length,
                                               Len(decompressed)),
                                filename |-> filename.val,
                                attempted |-> attempted]

(***************************************************************************)
(* Cipher stage (simple_interleaved_core.py).  PBKDF2 is a function of     *)
(* (password, salt, iterations); the salt is the same constant on both     *)
(* sides, so a key is the pair it was derived from.  Fernet is an          *)
(* authenticated cipher: a token is a version byte, the ciphertext and a   *)
(* tag over the ciphertext under the key, and decryption raises            *)
(* InvalidToken unless version and tag match.                              *)
(***************************************************************************)
Passwords == {"correct", "wrong"}

PasswordIndex(pw) == IF pw = "correct" THEN 1 ELSE 2

IterationIndex(n) ==
    CASE n = 1000 -> 1 [] n = 5000 -> 2 [] n = 10000 -> 3 [] OTHER -> 4

DeriveKey(password, iterations) == [password |-> password, iterations |-> iterations]

\* one byte that differs between any two keys of the model
KeyTag(key) == PasswordIndex(key.password) * 16 + IterationIndex(key.iterations)

FernetVersion == 128

fernet_encrypt(key, data) ==
    LET ciphertext == [k \in 1..Len(data) |-> (data[k] + KeyTag(key)) % 256]
    IN  <<FernetVersion>> \o ciphertext \o <<(Checksum(ciphertext) + KeyTag(key)) % 256>>

fernet_decrypt(key, token) ==
    IF Len(token) < 2 \/ token[1] # FernetVersion THEN Failed
    ELSE LET ciphertext == Slice(token, 1, Len(token) - 1)
             tag == token[Len(token)]
         IN  IF tag # (Checksum(ciphertext) + KeyTag(key)) % 256 THEN Failed
             ELSE [ok |-> TRUE,
                   val |-> [k \in 1..Len(ciphertext) |->
                               (ciphertext[k] - KeyTag(key)) % 256]]

NoSize == -1      \* the attribute _last_data_size is not set

\* SimpleInterleavedBitPaperEncoder._create_optimized_cipher: the iteration
\* count follows _last_data_size, 1000 when the attribute is missing
_create_optimized_cipher(last_data_size, password) ==
    LET data_size == IF last_data_size = NoSize THEN 1000 ELSE last_data_size
        iterations == IF data_size < 1000 THEN 1000
                      ELSE IF data_size < 10000 THEN 5000 ELSE 10000
    IN  DeriveKey(password, iterations)

\* SimpleInterleavedBitPaperDecoder._create_cipher
_create_cipher(password) == DeriveKey(password, 100000)

NoKey == [password |-> "", iterations |-> 0]

NoKeyFile == 0      \* no key path given, or no file at the path

\* a constructor that keeps the password in self.password
EncoderInitWithPassword(password, private_key, cell_size, bits_per_row, error_correction_level) ==
    [cell_size |-> cell_size,
     bits_per_row |-> bits_per_row,
     error_correction_level |-> error_correction_level,
     ecc_symbols |-> Max(1, (255 * error_correction_level) \div 100),
     cipher |-> _create_optimized_cipher(NoSize, password),
     has_private_key |-> private_key # NoKeyFile,
     private_key |-> private_key,
     has_rs_codec |-> TRUE,
     has_password |-> TRUE,
     password |-> password,
     cached_cipher |-> NoKey,
     last_data_size |-> NoSize]

\* SimpleInterleavedBitPaperEncoder.__init__: the attributes the constructor
\* sets; private_key is the key pair loaded from private_key_path.  It
\* stores no password attribute and no _cached_cipher; has_password and
\* cached_cipher record that.
SecureEncoderInit(password, private_key, cell_size, bits_per_row, error_correction_level) ==
    [cell_size |-> cell_size,
     bits_per_row |-> bits_per_row,
     error_correction_level |-> error_correction_level,
     ecc_symbols |-> Max(1, (255 * error_correction_level) \div 100),
     cipher |-> _create_optimized_cipher(NoSize, password),
     has_private_key |-> private_key # NoKeyFile,
     private_key |-> private_key,
     has_rs_codec |-> TRUE,
     has_password |-> FALSE,
     password |-> "",
     cached_cipher |-> NoKey,
     last_data_size |-> NoSize]

\* SimpleInterleavedBitPaperDecoder.__init__; public_key is the key pair
\* whose public half was loaded from public_key_path.  The class
\* defines no _optimized_error_correction_decode (the method of that name
\* belongs to the encoder class); has_fec_decode records that.
SecureDecoderInit(password, public_key, cell_size, bits_per_row, error_correction_level) ==
    [cell_size |-> cell_size,
     bits_per_row |-> bits_per_row,
     error_correction_level |-> error_correction_level,
     ecc_symbols |-> Max(1, (255 * error_correction_level) \div 100),
     cipher |-> _create_cipher(password),
     has_public_key |-> public_key # NoKeyFile,
     public_key |-> public_key,
     has_rs_codec |-> TRUE,
     has_fec_decode |-> FALSE]

\* RSA signatures (cryptography).  A signature is bound to the padding
\* scheme, the key pair and the data: its bytes here are a scheme tag, the
\* key pair and a digest of the data.  PSS.AUTO is a salt length for
\* verifying only; signing with it raises ValueError.
Pkcs1Tag == 1

PssMaxTag == 2

rsa_sign(private_key, data, scheme) ==
    CASE scheme = "PKCS1v15" -> [ok |-> TRUE, val |-> <<Pkcs1Tag, private_key, Checksum(data)>>]
      [] scheme = "PSS_MAX" -> [ok |-> TRUE, val |-> <<PssMaxTag, private_key, Checksum(data)>>]
      [] OTHER -> Failed

\* public_key.verify(signature, data, padding, SHA256): TRUE when it does
\* not raise
rsa_verify(public_key, signature, data, scheme) ==
    /\ Len(signature) = 3
    /\ signature[1] = (IF scheme = "PKCS1v15" THEN Pkcs1Tag ELSE PssMaxTag)
    /\ signature[2] = public_key
    /\ signature[3] = Checksum(data)

_secure_sign(enc, data) == rsa_sign(enc.private_key, data, "PSS_MAX").val

_fast_sign(enc, data) ==
    LET signature == rsa_sign(enc.private_key, data, "PKCS1v15")
    IN  IF signature.ok THEN signature.val ELSE _secure_sign(enc, data)

_balanced_sign(enc, data) ==
    LET signature == rsa_sign(enc.private_key, data, "PSS_AUTO")
    IN  IF signature.ok THEN signature.val ELSE _secure_sign(enc, data)

\* SimpleInterleavedBitPaperEncoder._optimized_sign_data
_optimized_sign_data(enc, data) ==
    IF ~enc.has_private_key THEN <<>>
    ELSE LET data_size == Len(data)
         IN  IF data_size < 1000 THEN _fast_sign(enc, data)
             ELSE IF data_size < 10000 THEN _balanced_sign(enc, data)
             ELSE _secure_sign(enc, data)

\* SimpleInterleavedBitPaperEncoder._optimized_encrypt: reading self.password
\* raises AttributeError when the object has no such attribute
_optimized_encrypt(enc, data) ==
    IF enc.cached_cipher = NoKey /\ ~enc.has_password
    THEN [status |-> "AttributeError", val |-> <<>>, enc |-> enc]
    ELSE LET cached == IF enc.cached_cipher = NoKey
                       THEN _create_optimized_cipher(enc.last_data_size, enc.password)
                       ELSE enc.cached_cipher
         IN  [status |-> "ok",
              val |-> fernet_encrypt(cached, data),
              enc |-> [enc EXCEPT !.cached_cipher = cached,
                                  !.last_data_size = Len(data)]]

(***************************************************************************)
(* Payload codec (simple_interleaved_core.py).                             *)
(***************************************************************************)
\* the signature length written in four bytes instead of two
CreatePayloadWideSigLen(encrypted_data, signature, timestamp) ==
    ToBytes(1, 1) \o ToBytes(timestamp, 8) \o ToBytes(Len(encrypted_data), 4)
    \o ToBytes(Len(signature), 4) \o signature
    \o ToBytes(Len(encrypted_data), 4) \o encrypted_data

\* SimpleInterleavedBitPaperEncoder._create_compact_payload; timestamp is
\* int(time.time())
_create_compact_payload(encrypted_data, signature, timestamp) ==
    LET version == 1
        original_size == Len(encrypted_data)
        signature_len == Len(signature)
    IN  ToBytes(version, 1) \o ToBytes(timestamp, 8) \o ToBytes(original_size, 4)
        \o ToBytes(signature_len, 2) \o signature
        \o ToBytes(Len(encrypted_data), 4) \o encrypted_data

\* SimpleInterleavedBitPaperDecoder._parse_compact_payload: every read is a
\* slice, which Python clips at the end of the buffer
_parse_compact_payload(payload_bytes) ==
    LET version == FromBytes(Slice(payload_bytes, 0, 1))
        timestamp == FromBytes(Slice(payload_bytes, 1, 9))
        original_size == FromBytes(Slice(payload_bytes, 9, 13))
        signature_len == FromBytes(Slice(payload_bytes, 13, 15))
        signature == Slice(payload_bytes, 15, 15 + signature_len)
        offset == 15 + signature_len
        data_len == FromBytes(Slice(payload_bytes, offset, offset + 4))
        data == Slice(payload_bytes, offset + 4, offset + 4 + data_len)
    IN  [data |-> data, version |-> version, timestamp |-> timestamp,
         original_size |-> original_size, signature |-> signature]

(***************************************************************************)
(* FEC stage.  reedsolo's RSCodec(nsym) appends nsym parity bytes to every *)
(* block of 255 - nsym data bytes; decoding takes blocks of 255 bytes,     *)
(* and a block whose parity does not match is, without correctable         *)
(* errors, a ReedSolomonError.  The generator polynomial of RSCodec(nsym)  *)
(* has the roots alpha^0 .. alpha^(nsym-1), so the check of a codec with   *)
(* fewer symbols is part of the check of a codec with more: a codeword of  *)
(* RSCodec(25) is a codeword of RSCodec(12) whose message ends in the      *)
(* first 13 parity bytes.  The model keeps that structure: the k-th byte   *)
(* from the end of a codeword is a check over all the bytes before it.     *)
(***************************************************************************)
RsCheck(k, prefix) ==
    (SumSeq([i \in 1..Len(prefix) |-> (i + k) * prefix[i]]) + k) % 256

RECURSIVE RsAppend(_, _)
RsAppend(word, k) ==
    IF k = 0 THEN word ELSE RsAppend(Append(word, RsCheck(k, word)), k - 1)

RsParity(block, nsym) ==
    SubSeq(RsAppend(block, nsym), Len(block) + 1, Len(block) + nsym)

RECURSIVE rs_encode(_, _)
rs_encode(data, nsym) ==
    IF data = <<>> THEN <<>>
    ELSE LET block == Slice(data, 0, 255 - nsym)
         IN  block \o RsParity(block, nsym) \o rs_encode(Slice(data, 255 - nsym, Len(data)), nsym)

RECURSIVE rs_decode(_, _)
rs_decode(data, nsym) ==
    IF data = <<>> THEN [ok |-> TRUE, val |-> <<>>]
    ELSE LET word == Slice(data, 0, 255)
             block == Slice(word, 0, Len(word) - nsym)
             rest == rs_decode(Slice(data, 255, Len(data)), nsym)
         IN  IF Len(word) <= nsym
                \/ Slice(word, Len(word) - nsym, Len(word)) # RsParity(block, nsym)
                \/ ~rest.ok
             THEN Failed
             ELSE [ok |-> TRUE, val |-> block \o rest.val]

\* max(1, int(255 * ecc_level)) with the level in percent
EccSymbols(percent) == Max(1, (255 * percent) \div 100)

\* FEC encode with the symbol count the constructor computed from
\* error_correction_level
EccEncodeConfigured(enc, data) ==
    IF ~enc.has_rs_codec THEN data ELSE rs_encode(data, enc.ecc_symbols)

\* SimpleInterleavedBitPaperEncoder._optimized_error_correction
_optimized_error_correction(enc, data) ==
    IF ~enc.has_rs_codec THEN data
    ELSE LET data_size == Len(data)
             ecc_symbols == IF data_size < 1000 THEN EccSymbols(5)
                            ELSE IF data_size < 5000 THEN EccSymbols(10)
                            ELSE EccSymbols(15)
         IN  rs_encode(data, ecc_symbols)

\* a trial loop that hands back nothing once every candidate has failed
RECURSIVE EccTrialGiveUp(_, _)
EccTrialGiveUp(data, levels) ==
    IF levels = <<>> THEN <<>>
    ELSE LET result == rs_decode(data, EccSymbols(Head(levels)))
         IN  IF result.ok THEN result.val ELSE EccTrialGiveUp(data, Tail(levels))

\* the "for ecc_level in [0.05, 0.10, 0.15]" loop
RECURSIVE EccTrial(_, _)
EccTrial(data, levels) ==
    IF levels = <<>> THEN data
    ELSE LET result == rs_decode(data, EccSymbols(Head(levels)))
         IN  IF result.ok THEN result.val ELSE EccTrial(data, Tail(levels))

\* SimpleInterleavedBitPaperEncoder._optimized_error_correction_decode
_optimized_error_correction_decode(enc, data) ==
    IF ~enc.has_rs_codec THEN data ELSE EccTrial(data, <<5, 10, 15>>)

(***************************************************************************)
(* Secure bit packing.                                                     *)
(***************************************************************************)
Nul == 2      \* a byte of the buffer that is neither '0' nor '1'

\* memory_manager.get_object('bytearray', size) with an empty pool:
\* bytearray(size or 1024)
FreshBytearray(size) == [k \in 1..(IF size = 0 THEN 1024 ELSE size) |-> 0]

\* SimpleInterleavedBitPaperEncoder._optimized_bytes_to_bitstream on the
\* buffer the pool handed out; writing past its end is an IndexError
_optimized_bytes_to_bitstream(buffer, data) ==
    IF Len(buffer) < Len(data) * 8 THEN [status |-> "IndexError", val |-> <<>>]
    ELSE [status |-> "ok",
          val |-> [k \in 1..Len(buffer) |->
                      IF k <= Len(data) * 8
                      THEN BitOf(data[((k - 1) \div 8) + 1], (k - 1) % 8)
                      ELSE Nul]]

\* SimpleInterleavedBitPaperDecoder._optimized_bitstream_to_bytes: the buffer
\* holds len // 8 bytes, and the loop writes one byte per started group of 8
_optimized_bitstream_to_bytes(bitstream) ==
    IF Len(bitstream) % 8 # 0 THEN [status |-> "IndexError", val |-> <<>>]
    ELSE [status |-> "ok",
          val |-> [b \in 1..(Len(bitstream) \div 8) |->
                      SumSeq([j \in 1..8 |->
                          IF bitstream[(b - 1) * 8 + j] = 1 THEN 2 ^ (8 - j) ELSE 0])]]

(***************************************************************************)
(* The memory manager's 'bytearray' pool (memory_manager.py): a deque,     *)
(* left end first.  A bytearray is its content.                            *)
(***************************************************************************)
max_pool_size == 100

\* UltraFastMemoryManager.get_object('bytearray', size)
get_object(pool, size) ==
    IF pool # <<>>
    THEN [obj |-> Head(pool), pool |-> Tail(pool)]
    ELSE [obj |-> FreshBytearray(size), pool |-> pool]

\* a return_object that tests the pool for existence, not for content
ReturnObjectToAnyPool(pool, obj) ==
    IF Len(pool) < max_pool_size
    THEN [obj |-> <<>>, pool |-> Append(pool, <<>>)]
    ELSE [obj |-> obj, pool |-> pool]

\* UltraFastMemoryManager.return_object('bytearray', obj): "if pool and
\* len(pool) < max_pool_size", and an empty deque is false.  obj is the
\* caller's object afterwards: cleared when it was pooled.
return_object(pool, obj) ==
    IF pool # <<>> /\ Len(pool) < max_pool_size
    THEN [obj |-> <<>>, pool |-> Append(pool, <<>>)]
    ELSE [obj |-> obj, pool |-> pool]

\* UltraFastMemoryManager.cleanup_pools
cleanup_pools(pool) == <<>>

\* collections.deque(maxlen=max_pool_size).extend(objs): every object is
\* appended on the right, and a full deque drops its leftmost one for it
deque_extend(pool, objs) ==
    LET all == pool \o objs
    IN  IF Len(all) <= max_pool_size THEN all
        ELSE SubSeq(all, Len(all) - max_pool_size + 1, Len(all))

\* SimpleInterleavedBitPaperEncoder._optimized_bytes_to_bitstream as a whole:
\* borrow a bytearray, fill it, return it to the pool, decode it
PooledBytesToBitstream(pool, data) ==
    LET got == get_object(pool, Len(data) * 8)
        filled == _optimized_bytes_to_bitstream(got.obj, data)
        returned == return_object(got.pool, filled.val)
    IN  IF filled.status # "ok"
        THEN [status |-> filled.status, val |-> <<>>, pool |-> got.pool]
        ELSE [status |-> "ok", val |-> returned.obj, pool |-> returned.pool]

(***************************************************************************)
(* Secure orchestrators.                                                   *)
(***************************************************************************)
A4Height == 3508

\* max_bits of the "Check A4 constraints" block
SecureMaxBits(enc) == enc.bits_per_row * ((A4Height - 8) \div enc.cell_size)

\* the stages of file_to_bitstream after encryption, up to the interleaver
SecureStages(enc, encrypted_data, signature, timestamp) ==
    LET payload == _create_compact_payload(encrypted_data, signature, timestamp)
        compressed == zlib_compress(payload)
        ecc_encoded == _optimized_error_correction(enc, compressed)
        bitstream == _optimized_bytes_to_bitstream(
                         FreshBytearray(Len(ecc_encoded) * 8), ecc_encoded)
    IN  _simple_interleave(bitstream.val)

\* the statements of file_to_bitstream in the order the method runs them
FileToBitstreamStages ==
    <<"Signing", "Encrypting", "PayloadPacking", "Compressing", "ECCEncoding",
      "BitPacking", "Interleaving", "CapacityCheck", "Done">>

\* SimpleInterleavedBitPaperEncoder.file_to_bitstream on a file holding data;
\* stages lists the statements the call started, the one that raised last
SecureFileToBitstreamOp(enc, data, timestamp) ==
    LET signature == _optimized_sign_data(enc, data)
        encrypted == _optimized_encrypt(enc, data)
        interleaved_bitstream == SecureStages(encrypted.enc, encrypted.val, signature, timestamp)
    IN  IF encrypted.status # "ok"
        THEN [status |-> encrypted.status, bitstream |-> <<>>, enc |-> encrypted.enc,
              stages |-> SubSeq(FileToBitstreamStages, 1, 2)]
        ELSE IF Len(interleaved_bitstream) > SecureMaxBits(enc)
        THEN [status |-> "ValueError", bitstream |-> <<>>, enc |-> encrypted.enc,
              stages |-> SubSeq(FileToBitstreamStages, 1, 8)]
        ELSE [status |-> "ok", bitstream |-> interleaved_bitstream, enc |-> encrypted.enc,
              stages |-> FileToBitstreamStages]

\* a verification that insists on a key and a signature
VerifySignatureStrict(dec, data, signature) ==
    /\ dec.has_public_key
    /\ signature # <<>>
    /\ rsa_verify(dec.public_key, signature, data, "PSS_MAX")

\* SimpleInterleavedBitPaperDecoder._verify_signature
_verify_signature(dec, data, signature) ==
    IF dec.has_public_key /\ signature # <<>>
    THEN rsa_verify(dec.public_key, signature, data, "PSS_MAX")
    ELSE TRUE

SecureError(status) == [status |-> status, data |-> <<>>]

\* the except clause handing back the bytes read so far instead of raising
SecureBitstreamToDataSwallow(dec, bitstream) ==
    LET deinterleaved_bitstream == Dec_simple_deinterleave(bitstream)
        bytes_data == _optimized_bitstream_to_bytes(deinterleaved_bitstream)
    IN  IF bytes_data.status # "ok" THEN SecureError(bytes_data.status)
        ELSE [status |-> "ok", data |-> bytes_data.val]

\* SimpleInterleavedBitPaperDecoder.bitstream_to_data.  The first statement
\* of the try block calls self._optimized_error_correction_decode; on an
\* object without that method this is an AttributeError, which the except
\* clause turns into ValueError.
SecureBitstreamToDataOp(dec, bitstream) ==
    LET deinterleaved_bitstream == Dec_simple_deinterleave(bitstream)
        bytes_data == _optimized_bitstream_to_bytes(deinterleaved_bitstream)
    IN  IF bytes_data.status # "ok" THEN SecureError(bytes_data.status)
        ELSE IF ~dec.has_fec_decode THEN SecureError("ValueError")
        ELSE LET corrected_data == _optimized_error_correction_decode(dec, bytes_data.val)
                 decompressed == zlib_decompress(corrected_data)
             IN  IF ~decompressed.ok THEN SecureError("ValueError")
                 ELSE LET parsed == _parse_compact_payload(decompressed.val)
                          decrypted == fernet_decrypt(dec.cipher, parsed.data)
                      IN  IF ~decrypted.ok THEN SecureError("ValueError")
                          ELSE [status |-> "ok", data |-> decrypted.val]

(***************************************************************************)
(* Calls on shared objects, one statement at a time.  th is the calling    *)
(* thread's frame: [call, pc, signature, key, bytes, buffer, status, val,  *)
(* foreign, overlapped]; sh is what the threads share: [enc, pool, owners, *)
(* writer, history].  A step is atomic: one attribute read or write, or    *)
(* one pool call under the manager's lock, with the local work around it.  *)
(* foreign records a read of something another thread's call wrote.        *)
(***************************************************************************)
Threads == 1..MaxThreads

\* memory_monitor.get_memory_usage: memory_history is a deque(maxlen=100)
smart_gc(history) == Min(100, history + 1)

\* SimpleInterleavedBitPaperEncoder.file_to_bitstream, with _optimized_encrypt
\* and _optimized_bytes_to_bitstream inlined
FileToBitstreamStep(t, th, sh) ==
    CASE th.pc = "sign" ->
           [th |-> [th EXCEPT !.signature = _optimized_sign_data(sh.enc, th.call.data),
                              !.pc = "has_cached"],
            sh |-> sh]
      [] th.pc = "has_cached" ->
           [th |-> [th EXCEPT !.pc = IF sh.enc.cached_cipher = NoKey
                                     THEN "create_cipher" ELSE "store_size",
                              !.foreign = @ \/ sh.writer.cached \notin {0, t}],
            sh |-> sh]
      [] th.pc = "create_cipher" ->
           IF ~sh.enc.has_password
           THEN [th |-> [th EXCEPT !.status = "AttributeError", !.pc = "exit"], sh |-> sh]
           ELSE [th |-> [th EXCEPT !.key = _create_optimized_cipher(
                                               sh.enc.last_data_size, sh.enc.password),
                                   !.pc = "store_cached",
                                   !.foreign = @ \/ sh.writer.size \notin {0, t}],
                 sh |-> sh]
      [] th.pc = "store_cached" ->
           [th |-> [th EXCEPT !.pc = "store_size"],
            sh |-> [sh EXCEPT !.enc.cached_cipher = th.key, !.writer.cached = t]]
      [] th.pc = "store_size" ->
           [th |-> [th EXCEPT !.pc = "encrypt"],
            sh |-> [sh EXCEPT !.enc.last_data_size = Len(th.call.data), !.writer.size = t]]
      [] th.pc = "encrypt" ->
           LET encrypted_data == fernet_encrypt(sh.enc.cached_cipher, th.call.data)
               payload == _create_compact_payload(encrypted_data, th.signature, th.call.time)
               ecc_encoded == _optimized_error_correction(sh.enc, zlib_compress(payload))
           IN  [th |-> [th EXCEPT !.bytes = ecc_encoded,
                                  !.pc = "get_object",
                                  !.foreign = @ \/ sh.writer.cached \notin {0, t}],
                sh |-> sh]
      [] th.pc = "get_object" ->
           LET got == get_object(sh.pool, Len(th.bytes) * 8)
               filled == _optimized_bytes_to_bitstream(got.obj, th.bytes)
           IN  [th |-> [th EXCEPT !.buffer = filled.val,
                                  !.status = IF filled.status = "ok" THEN @ ELSE filled.status,
                                  !.pc = IF filled.status = "ok" THEN "return_object" ELSE "exit",
                                  !.foreign = @ \/ (sh.pool # <<>> /\ Head(sh.owners) # t)],
                sh |-> [sh EXCEPT !.pool = got.pool,
                                  !.owners = IF sh.pool # <<>> THEN Tail(@) ELSE @]]
      [] th.pc = "return_object" ->
           LET returned == return_object(sh.pool, th.buffer)
               interleaved_bitstream == _simple_interleave(returned.obj)
               fits == Len(interleaved_bitstream) <= SecureMaxBits(sh.enc)
           IN  [th |-> [th EXCEPT !.status = IF fits THEN "ok" ELSE "ValueError",
                                  !.val = IF fits THEN interleaved_bitstream ELSE <<>>,
                                  !.pc = "exit"],
                sh |-> [sh EXCEPT !.pool = returned.pool,
                                  !.owners = IF Len(returned.pool) > Len(sh.pool)
                                             THEN Append(@, t) ELSE @,
                                  !.history = IF fits THEN smart_gc(@) ELSE @]]
      [] OTHER ->
           [th |-> [th EXCEPT !.pc = "done"],
            sh |-> [sh EXCEPT !.history = smart_gc(@)]]

\* SimpleInterleavedBitPaperDecoder.bitstream_to_data: the two statements
\* before the try block, then the try block
BitstreamToDataStep(t, th, sh, dec) ==
    IF th.pc = "unpack"
    THEN LET bytes_data == _optimized_bitstream_to_bytes(
                               Dec_simple_deinterleave(th.call.stream))
         IN  [th |-> [th EXCEPT !.bytes = bytes_data.val,
                                !.status = IF bytes_data.status = "ok" THEN @
                                           ELSE bytes_data.status,
                                !.pc = IF bytes_data.status = "ok" THEN "correct" ELSE "done"],
              sh |-> sh]
    ELSE LET r == SecureBitstreamToDataOp(dec, th.call.stream)
         IN  [th |-> [th EXCEPT !.status = r.status, !.val = r.data, !.pc = "done"],
              sh |-> sh]

(***************************************************************************)
(* Inputs the environment chooses.                                         *)
(***************************************************************************)
ByteValues == {1, 3, 4}

FileContents == UNION {[1..k -> ByteValues] : k \in 0..MaxData}

\* file names as code points; 233 takes two UTF-8 bytes
FileNames == {<<1>>, <<2>>, <<97, 233>>}

Configs ==
    { [cell_size |-> 2, bits_per_row |-> 5, max_rows |-> 3, pretty_mode |-> FALSE],
      [cell_size |-> 1, bits_per_row |-> 8, max_rows |-> 4, pretty_mode |-> FALSE],
      [cell_size |-> 1, bits_per_row |-> 8, max_rows |-> 4, pretty_mode |-> TRUE] }

\* bitstreams handed to the decoder that no encoder call of the run produced
SuppliedStreams ==
    {_bytes_to_bitstream(<<id>> \o Compressor(a, <<1, 97, 4>>)) :
        id \in {0, 1, 2, 3, 120, 255}, a \in AlgorithmSet}
    \cup {_bytes_to_bitstream(Compressor(a, <<1, 97, 4>>)) : a \in AlgorithmSet}
    \cup {<<>>, <<1, 0, 1>>, _bytes_to_bitstream(<<0>>), _bytes_to_bitstream(<<7>>)}

\* bitstreams given to bitstream_to_image: every stream of up to MaxGridBits
\* bits, and the full pages of one repeated pattern
GridStreams(c) ==
    BitSeqs(MaxGridBits)
    \cup {[k \in 1..EncoderBitsPerPage(c) |-> IF k % m = 0 THEN 1 ELSE 0] : m \in 1..3}

SecureContents == UNION {[1..k -> {1, 200}] : k \in 0..MaxSecureData}

\* int(time.time()) at the call
Timestamps == {0, 1700000000}

\* cell_size 3500 leaves one row, so the page holds bits_per_row bits
SecureConfigs ==
    { [cell_size |-> 3500, bits_per_row |-> 295],
      [cell_size |-> 3500, bits_per_row |-> 296] }

\* the signature field of a payload: none, or one that key pair 1 does not
\* verify
SuppliedSignatures == {<<>>, <<PssMaxTag, 2, 0>>}

SecureSources ==
    [password : Passwords, iterations : {5000, 100000},
     data : SecureContents, signature : SuppliedSignatures, time : {0}]

\* the bitstream the encoder's stages give for a token of src
SourceStream(enc, src) ==
    SecureStages(enc, fernet_encrypt(DeriveKey(src.password, src.iterations), src.data),
                 src.signature, src.time)

\* error_correction_level as the callers pass it, in percent: the default
\* of Config, main's 0.15 and the corruption test's 0.2
ErrorCorrectionLevels == {10, 15, 20}

\* byte strings given to the FEC encoder: the short ones, and one of each
\* length next to the size classes' limits
FecPattern(n) == [k \in 1..n |-> (7 * k) % 256]

FecLargeSizes == {999, 1000, 4999, 5000}

FecInputs ==
    UNION {[1..k -> {1, 200}] : k \in 0..MaxFecData}
    \cup {FecPattern(n) : n \in FecLargeSizes}

\* the key files on disk: none, or the halves of key pair 1 or 2
KeyFiles == {NoKeyFile, 1, 2}

SignLargeSizes == {999, 1000, 9999, 10000}

\* data given to the signer: the short ones, and one of each length next
\* to the limits of the three schemes
SignInputs ==
    UNION {[1..k -> {1, 200}] : k \in 0..MaxSignData}
    \cup {FecPattern(n) : n \in SignLargeSizes}

\* sizes asked of get_object; 0 stands for a call without a size
PoolSizes == {0, 8, 16}

\* how many bytearrays a caller puts into the deque directly; the k-th of
\* them is bytearray([k])
SeedCounts == {1, max_pool_size - 1, max_pool_size}

PoolInputs == UNION {[1..k -> {1, 200}] : k \in 0..MaxPoolData}

\* what the threads call: file_to_bitstream on a file holding data, or
\* bitstream_to_data on a bitstream
ConcurrentCalls ==
    {[kind |-> "encode", data |-> d, stream |-> <<>>, time |-> 0] :
        d \in {<<1>>, <<1, 200>>}}
    \cup {[kind |-> "decode", data |-> <<>>, stream |-> b, time |-> 0] :
        b \in {<<1>>, <<0, 0, 0, 0, 0, 0, 0, 0>>}}

PayloadFields == UNION {[1..k -> {0, 255}] : k \in 0..MaxField}

(***************************************************************************)
(* Initial state and actions.                                              *)
(***************************************************************************)
NoEncode ==
    [status |-> "none", pages |-> <<>>, compressed |-> <<>>, path |-> "none",
     algorithm |-> "none"]

NoResult == [status |-> "none", data |-> <<>>, filename |-> <<>>, attempted |-> "none"]

InitInterleave ==
    /\ il_pc = "idle"
    /\ il_src = <<>>
    /\ il_mid = <<>>
    /\ il_enc = <<>>
    /\ il_dec = <<>>

DefaultConfig ==
    [cell_size |-> 2, bits_per_row |-> 5, max_rows |-> 3, pretty_mode |-> FALSE]

InitCore ==
    /\ conf = DefaultConfig
    /\ ns_pc = "unbuilt"
    /\ ns_file = [name |-> <<>>, data |-> <<>>]
    /\ ns_raised = {}
    /\ ns_enc = NoEncode
    /\ ns_images = <<>>
    /\ ns_stream = <<>>
    /\ ns_result = NoResult

InitGrid ==
    /\ gr_pc = "idle"
    /\ gr_bits = <<>>
    /\ gr_image = <<>>
    /\ gr_read = <<>>

NoSecureEncode == [status |-> "none", bitstream |-> <<>>, stages |-> <<>>]

NoSource ==
    [password |-> "", iterations |-> 0, data |-> <<>>, signature |-> <<>>, time |-> 0]

InitSecure ==
    /\ se_pc = "unbuilt"
    /\ se_encoder = SecureEncoderInit("correct", NoKeyFile, 3500, 296, 15)
    /\ se_decoder = SecureDecoderInit("correct", NoKeyFile, 3500, 296, 15)
    /\ se_data = <<>>
    /\ se_encode = NoSecureEncode
    /\ se_source = NoSource
    /\ se_stream = <<>>
    /\ se_result = SecureError("none")

InitPayload ==
    /\ pl_pc = "idle"
    /\ pl_in = [encrypted_data |-> <<>>, signature |-> <<>>, timestamp |-> 0]
    /\ pl_bytes = <<>>
    /\ pl_parsed = _parse_compact_payload(<<>>)

InitFec ==
    /\ fe_pc = "unbuilt"
    /\ fe_encoder = SecureEncoderInit("correct", NoKeyFile, 6, 413, 10)
    /\ fe_data = <<>>
    /\ fe_out = <<>>
    /\ fe_in = <<>>
    /\ fe_dec = <<>>

InitSign ==
    /\ sg_pc = "unbuilt"
    /\ sg_encoder = SecureEncoderInit("correct", NoKeyFile, 6, 413, 10)
    /\ sg_decoder = SecureDecoderInit("correct", NoKeyFile, 6, 413, 10)
    /\ sg_data = <<>>
    /\ sg_signature = <<>>
    /\ sg_seen = [data |-> <<>>, signature |-> <<>>]
    /\ sg_verified = TRUE

InitPool ==
    /\ mm_pool = <<>>
    /\ mm_held = <<>>
    /\ mm_calls = <<>>
    /\ mm_pc = "idle"
    /\ mm_data = <<>>
    /\ mm_result = [status |-> "none", val |-> <<>>]

NoCall == [kind |-> "none", data |-> <<>>, stream |-> <<>>, time |-> 0]

IdleThread ==
    [call |-> NoCall, pc |-> "unstarted", signature |-> <<>>, key |-> NoKey,
     bytes |-> <<>>, buffer |-> <<>>, status |-> "none", val |-> <<>>,
     foreign |-> FALSE, overlapped |-> FALSE]

\* main.py: one encoder and one decoder built with the same password, and
\* the module's memory_manager
InitConcurrent ==
    /\ cc_encoder = SecureEncoderInit("correct", NoKeyFile, 3500, 296, 15)
    /\ cc_decoder = SecureDecoderInit("correct", NoKeyFile, 3500, 296, 15)
    /\ cc_pool = <<>>
    /\ cc_owners = <<>>
    /\ cc_writer = [cached |-> 0, size |-> 0]
    /\ cc_history = 0
    /\ cc_threads = [t \in Threads |-> IdleThread]

Init ==
    /\ InitInterleave /\ InitCore /\ InitGrid /\ InitSecure /\ InitPayload
    /\ InitFec /\ InitSign /\ InitPool /\ InitConcurrent

\* BitPaperEncoder(...) and BitPaperDecoder(...) built with the same arguments
Construct ==
    /\ ns_pc = "unbuilt"
    /\ gr_pc = "idle"
    /\ conf' \in Configs
    /\ ns_pc' = "idle"
    /\ UNCHANGED <<ns_file, ns_raised, ns_enc, ns_images, ns_stream, ns_result,
                   ilvars, gridvars, securevars, payloadvars, latervars>>

\* a caller interleaves a bit sequence
Interleave ==
    /\ \E s \in BitSeqs(MaxBits) :
        /\ il_pc' = "interleaved"
        /\ il_src' = s
        /\ il_mid' = _simple_interleave(s)
        /\ il_enc' = <<>>
        /\ il_dec' = <<>>
    /\ UNCHANGED <<corevars, gridvars, securevars, payloadvars, latervars>>

\* a caller gives the interleaved sequence to both deinterleavers
Deinterleave ==
    /\ il_pc = "interleaved"
    /\ il_pc' = "deinterleaved"
    /\ il_enc' = Enc_simple_deinterleave(il_mid)
    /\ il_dec' = Dec_simple_deinterleave(il_mid)
    /\ UNCHANGED <<il_src, il_mid, corevars, gridvars, securevars, payloadvars, latervars>>

\* encoder.file_to_bitstream_pages(filepath); the environment decides which
\* compressors raise, and whether the fallback's zlib call raises too
FileToBitstreamPages ==
    /\ ns_pc = "idle"
    /\ \E name \in FileNames, data \in FileContents, raised \in SUBSET AlgorithmSet,
          fallback_raises \in BOOLEAN :
        /\ fallback_raises => raised = AlgorithmSet
        /\ LET r == file_to_bitstream_pages(conf, name, data, raised, fallback_raises)
           IN  /\ ns_file' = [name |-> name, data |-> data]
               /\ ns_raised' = raised
               /\ ns_enc' = r
               /\ ns_pc' = IF r.status = "ok" THEN "encoded" ELSE "encode_failed"
    /\ UNCHANGED <<conf, ns_images, ns_stream, ns_result, ilvars, gridvars, securevars, payloadvars, latervars>>

\* ''.join(pages), as test_comparison hands the pages to the decoder
JoinPages ==
    /\ ns_pc = "encoded"
    /\ ns_stream' = Concat(ns_enc.pages)
    /\ ns_pc' = "joined"
    /\ UNCHANGED <<conf, ns_file, ns_raised, ns_enc, ns_images, ns_result, ilvars, gridvars, securevars, payloadvars, latervars>>

\* main's "for i, bitstream in enumerate(bitstream_pages)": one image per page
RenderPages ==
    /\ ns_pc = "encoded"
    /\ ns_images' = [k \in 1..Len(ns_enc.pages) |-> bitstream_to_image(conf, ns_enc.pages[k])]
    /\ ns_pc' = "rendered"
    /\ UNCHANGED <<conf, ns_file, ns_raised, ns_enc, ns_stream, ns_result, ilvars, gridvars, securevars, payloadvars, latervars>>

\* decoder.images_to_bitstream(images)
ImagesToBitstream ==
    /\ ns_pc = "rendered"
    /\ ns_stream' = images_to_bitstream(conf, ns_images)
    /\ ns_pc' = "scanned"
    /\ UNCHANGED <<conf, ns_file, ns_raised, ns_enc, ns_images, ns_result, ilvars, gridvars, securevars, payloadvars, latervars>>

\* a bitstream from elsewhere reaches the decoder
SupplyBitstream ==
    /\ ns_pc = "idle"
    /\ \E b \in SuppliedStreams : ns_stream' = b
    /\ ns_pc' = "supplied"
    /\ UNCHANGED <<conf, ns_file, ns_raised, ns_enc, ns_images, ns_result, ilvars, gridvars, securevars, payloadvars, latervars>>

\* decoder.bitstream_to_data(bitstream)
BitstreamToData ==
    /\ ns_pc \in {"joined", "scanned", "supplied"}
    /\ ns_result' = bitstream_to_data(ns_stream)
    /\ ns_pc' = IF ns_pc = "joined" THEN "decoded_joined"
                ELSE IF ns_pc = "scanned" THEN "decoded_scanned" ELSE "decoded_supplied"
    /\ UNCHANGED <<conf, ns_file, ns_raised, ns_enc, ns_images, ns_stream, ilvars, gridvars, securevars, payloadvars, latervars>>

\* encoder.bitstream_to_image(b)
BitstreamToImage ==
    /\ gr_pc = "idle"
    /\ ns_pc = "idle"
    /\ \E b \in GridStreams(conf) :
        /\ gr_bits' = b
        /\ gr_image' = bitstream_to_image(conf, b)
    /\ gr_pc' = "rendered"
    /\ gr_read' = <<>>
    /\ UNCHANGED <<corevars, ilvars, securevars, payloadvars, latervars>>

\* decoder.image_to_bitstream(image, len(b))
ImageToBitstream ==
    /\ gr_pc = "rendered"
    /\ gr_read' = image_to_bitstream(conf, gr_image, Len(gr_bits))
    /\ gr_pc' = "read"
    /\ UNCHANGED <<gr_bits, gr_image, corevars, ilvars, securevars, payloadvars, latervars>>

\* SimpleInterleavedBitPaperEncoder(password, cell_size=..., bits_per_row=...,
\* error_correction_level=0.15) with no private key, and the decoder
\* likewise, with or without the public key of key pair 1
SecureConstruct ==
    /\ se_pc = "unbuilt"
    /\ \E pe \in Passwords, pd \in Passwords, c \in SecureConfigs,
          public_key \in {NoKeyFile, 1} :
        /\ se_encoder' = SecureEncoderInit(pe, NoKeyFile, c.cell_size, c.bits_per_row, 15)
        /\ se_decoder' = SecureDecoderInit(pd, public_key, c.cell_size, c.bits_per_row, 15)
    /\ se_pc' = "idle"
    /\ UNCHANGED <<se_data, se_encode, se_source, se_stream, se_result,
                   ilvars, corevars, gridvars, payloadvars, latervars>>

\* encoder.file_to_bitstream(filepath) on a file holding data
SecureFileToBitstream ==
    /\ se_pc = "idle"
    /\ \E data \in SecureContents, timestamp \in Timestamps :
        LET r == SecureFileToBitstreamOp(se_encoder, data, timestamp)
        IN  /\ se_data' = data
            /\ se_encoder' = r.enc
            /\ se_encode' = [status |-> r.status, bitstream |-> r.bitstream,
                              stages |-> r.stages]
            /\ se_pc' = IF r.status = "ok" THEN "encode_returned" ELSE "encode_raised"
    /\ UNCHANGED <<se_decoder, se_source, se_stream, se_result,
                   ilvars, corevars, gridvars, payloadvars, latervars>>

\* A bitstream reaches the decoder: one put together by the encoder's stages
\* (payload, zlib, FEC, bit packing, interleaving) from a token made under the
\* key of some password and iteration count.
SecureSupply ==
    /\ se_pc \in {"idle", "encode_returned", "encode_raised"}
    /\ \E src \in SecureSources :
        /\ se_source' = src
        /\ se_stream' = SourceStream(se_encoder, src)
    /\ se_pc' = "supplied"
    /\ UNCHANGED <<se_encoder, se_decoder, se_data, se_encode, se_result,
                   ilvars, corevars, gridvars, payloadvars, latervars>>

\* Some other bitstream reaches the decoder: any bits a scan may give, of
\* any length.
SecureSupplyRaw ==
    /\ se_pc = "idle"
    /\ \E b \in BitSeqs(MaxRawBits) : se_stream' = b
    /\ se_source' = NoSource
    /\ se_pc' = "supplied_raw"
    /\ UNCHANGED <<se_encoder, se_decoder, se_data, se_encode, se_result,
                   ilvars, corevars, gridvars, payloadvars, latervars>>

\* decoder.bitstream_to_data(bitstream)
SecureBitstreamToData ==
    /\ se_pc \in {"supplied", "supplied_raw"}
    /\ se_result' = SecureBitstreamToDataOp(se_decoder, se_stream)
    /\ se_pc' = IF se_pc = "supplied" THEN "decoded" ELSE "decoded_raw"
    /\ UNCHANGED <<se_encoder, se_decoder, se_data, se_encode, se_source, se_stream,
                   ilvars, corevars, gridvars, payloadvars, latervars>>

\* encoder._create_compact_payload(encrypted_data, signature)
CreateCompactPayload ==
    /\ pl_pc = "idle"
    /\ \E c \in PayloadFields, sig \in PayloadFields, t \in Timestamps :
        /\ pl_in' = [encrypted_data |-> c, signature |-> sig, timestamp |-> t]
        /\ pl_bytes' = _create_compact_payload(c, sig, t)
    /\ pl_pc' = "created"
    /\ UNCHANGED <<pl_parsed, ilvars, corevars, gridvars, securevars, latervars>>

\* the decompressed bytes bitstream_to_data hands to the parser are whatever
\* the stream held: here a payload that lost its tail
TruncatePayload ==
    /\ pl_pc = "created"
    /\ \E k \in 0..(Len(pl_bytes) - 1) : pl_bytes' = Slice(pl_bytes, 0, k)
    /\ pl_pc' = "cut"
    /\ UNCHANGED <<pl_in, pl_parsed, ilvars, corevars, gridvars, securevars, latervars>>

\* decoder._parse_compact_payload(payload); the function has no raise and
\* no call that can raise on bytes, so it always returns
ParseCompactPayload ==
    /\ pl_pc \in {"created", "cut"}
    /\ pl_parsed' = _parse_compact_payload(pl_bytes)
    /\ pl_pc' = IF pl_pc = "created" THEN "parsed" ELSE "parsed_cut"
    /\ UNCHANGED <<pl_in, pl_bytes, ilvars, corevars, gridvars, securevars, latervars>>

\* SimpleInterleavedBitPaperEncoder(password, error_correction_level=...)
FecConstruct ==
    /\ fe_pc = "unbuilt"
    /\ \E level \in ErrorCorrectionLevels :
        fe_encoder' = SecureEncoderInit("correct", NoKeyFile, 6, 413, level)
    /\ fe_pc' = "idle"
    /\ UNCHANGED <<fe_data, fe_out, fe_in, fe_dec, basevars, signvars, poolvars, concvars>>

\* encoder._optimized_error_correction(data)
FecEncode ==
    /\ fe_pc = "idle"
    /\ \E data \in FecInputs :
        /\ fe_data' = data
        /\ fe_out' = _optimized_error_correction(fe_encoder, data)
    /\ fe_pc' = "encoded"
    /\ UNCHANGED <<fe_encoder, fe_in, fe_dec, basevars, signvars, poolvars, concvars>>

\* the encoded bytes reach the decode side: intact (at = 0), or with the
\* byte at position at damaged beyond what the code can repair
FecReceive ==
    /\ fe_pc = "encoded"
    /\ \E at \in {0, 1, Len(fe_out)} :
        fe_in' = IF at = 0 THEN fe_out
                 ELSE [fe_out EXCEPT ![at] = (@ + 1) % 256]
    /\ fe_pc' = "received"
    /\ UNCHANGED <<fe_encoder, fe_data, fe_out, fe_dec, basevars, signvars, poolvars, concvars>>

\* encoder._optimized_error_correction_decode(data)
FecDecode ==
    /\ fe_pc = "received"
    /\ fe_dec' = _optimized_error_correction_decode(fe_encoder, fe_in)
    /\ fe_pc' = "decoded"
    /\ UNCHANGED <<fe_encoder, fe_data, fe_out, fe_in, basevars, signvars, poolvars, concvars>>

\* SimpleInterleavedBitPaperEncoder(password, private_key_path, ...) and
\* SimpleInterleavedBitPaperDecoder(password, public_key_path, ...)
SignConstruct ==
    /\ sg_pc = "unbuilt"
    /\ \E private_key \in KeyFiles, public_key \in KeyFiles :
        /\ sg_encoder' = SecureEncoderInit("correct", private_key, 6, 413, 15)
        /\ sg_decoder' = SecureDecoderInit("correct", public_key, 6, 413, 15)
    /\ sg_pc' = "idle"
    /\ UNCHANGED <<sg_data, sg_signature, sg_seen, sg_verified, basevars, fecvars, poolvars, concvars>>

\* encoder._optimized_sign_data(data)
SignData ==
    /\ sg_pc = "idle"
    /\ \E data \in SignInputs :
        /\ sg_data' = data
        /\ sg_signature' = _optimized_sign_data(sg_encoder, data)
    /\ sg_pc' = "signed"
    /\ UNCHANGED <<sg_encoder, sg_decoder, sg_seen, sg_verified, basevars, fecvars, poolvars, concvars>>

\* the data and the signature reach the decoder as they were made, with
\* the data altered, or with the signature left out
SignDeliver ==
    /\ sg_pc = "signed"
    /\ \E how \in {"intact", "altered", "unsigned"} :
        sg_seen' = [data |-> IF how = "altered" THEN sg_data \o <<9>> ELSE sg_data,
                    signature |-> IF how = "unsigned" THEN <<>> ELSE sg_signature]
    /\ sg_pc' = "delivered"
    /\ UNCHANGED <<sg_encoder, sg_decoder, sg_data, sg_signature, sg_verified,
                   basevars, fecvars, poolvars, concvars>>

\* decoder._verify_signature(decrypted_data, metadata['signature'])
VerifySignature ==
    /\ sg_pc = "delivered"
    /\ sg_verified' = _verify_signature(sg_decoder, sg_seen.data, sg_seen.signature)
    /\ sg_pc' = "verified"
    /\ UNCHANGED <<sg_encoder, sg_decoder, sg_data, sg_signature, sg_seen,
                   basevars, fecvars, poolvars, concvars>>

NextSign == SignConstruct \/ SignData \/ SignDeliver \/ VerifySignature

SpecSign == Init /\ [][NextSign]_vars

\* memory_manager.get_object('bytearray', size)
GetObject ==
    /\ mm_pc = "idle"
    /\ Len(mm_calls) < MaxPoolCalls
    /\ \E size \in PoolSizes :
        LET got == get_object(mm_pool, size)
        IN  /\ mm_held' = Append(mm_held, got.obj)
            /\ mm_pool' = got.pool
    /\ mm_calls' = Append(mm_calls, "get")
    /\ UNCHANGED <<mm_pc, mm_data, mm_result, basevars, fecvars, signvars, concvars>>

\* memory_manager.return_object('bytearray', obj) for an object a caller holds
ReturnObject ==
    /\ mm_pc = "idle"
    /\ Len(mm_calls) < MaxPoolCalls
    /\ \E i \in 1..Len(mm_held) :
        /\ mm_pool' = return_object(mm_pool, mm_held[i]).pool
        /\ mm_held' = SubSeq(mm_held, 1, i - 1) \o SubSeq(mm_held, i + 1, Len(mm_held))
    /\ mm_calls' = Append(mm_calls, "return")
    /\ UNCHANGED <<mm_pc, mm_data, mm_result, basevars, fecvars, signvars, concvars>>

\* memory_manager.cleanup_pools()
CleanupPools ==
    /\ mm_pc = "idle"
    /\ Len(mm_calls) < MaxPoolCalls
    /\ mm_pool' = cleanup_pools(mm_pool)
    /\ mm_calls' = Append(mm_calls, "cleanup")
    /\ UNCHANGED <<mm_held, mm_pc, mm_data, mm_result, basevars, fecvars, signvars, concvars>>

\* encoder._optimized_bytes_to_bitstream(data), after the pool calls and
\* after earlier conversions
BytesToBitstream ==
    /\ \E data \in PoolInputs :
        LET r == PooledBytesToBitstream(mm_pool, data)
        IN  /\ mm_data' = data
            /\ mm_result' = [status |-> r.status, val |-> r.val]
            /\ mm_pool' = r.pool
    /\ mm_pc' = "converted"
    /\ UNCHANGED <<mm_held, mm_calls, basevars, fecvars, signvars, concvars>>

NextPool == GetObject \/ ReturnObject \/ CleanupPools \/ BytesToBitstream

SpecPool == Init /\ [][NextPool]_vars

\* memory_manager.object_pools['bytearray'].extend(...): a caller fills the
\* deque without return_object
SeedPool ==
    /\ mm_pc = "idle"
    /\ Len(mm_calls) < MaxPoolCalls
    /\ \E n \in SeedCounts :
        mm_pool' = deque_extend(mm_pool, [k \in 1..n |-> <<k>>])
    /\ mm_calls' = Append(mm_calls, "seed")
    /\ UNCHANGED <<mm_held, mm_pc, mm_data, mm_result, basevars, fecvars, signvars, concvars>>

NextPoolSeeded == NextPool \/ SeedPool

SpecPoolSeeded == Init /\ [][NextPoolSeeded]_vars

\* a thread starts a call on the shared encoder or decoder
ThreadCall ==
    /\ \E t \in Threads, c \in ConcurrentCalls :
        /\ cc_threads[t].pc = "unstarted"
        /\ cc_threads' = [cc_threads EXCEPT
               ![t] = [@ EXCEPT !.call = c,
                                !.pc = IF c.kind = "encode" THEN "sign" ELSE "unpack"]]
    /\ UNCHANGED <<cc_encoder, cc_decoder, cc_pool, cc_owners, cc_writer, cc_history,
                   basevars, fecvars, signvars, poolvars>>

\* the scheduler lets one thread run its next statement
ThreadStep ==
    /\ \E t \in Threads :
        /\ cc_threads[t].pc \notin {"unstarted", "done"}
        /\ LET th == cc_threads[t]
               sh == [enc |-> cc_encoder, pool |-> cc_pool, owners |-> cc_owners,
                      writer |-> cc_writer, history |-> cc_history]
               r == IF th.call.kind = "encode" THEN FileToBitstreamStep(t, th, sh)
                    ELSE BitstreamToDataStep(t, th, sh, cc_decoder)
               others == \E u \in Threads \ {t} :
                             cc_threads[u].pc \notin {"unstarted", "done"}
           IN  /\ cc_threads' = [cc_threads EXCEPT
                      ![t] = [r.th EXCEPT !.overlapped = @ \/ others]]
               /\ cc_encoder' = r.sh.enc
               /\ cc_pool' = r.sh.pool
               /\ cc_owners' = r.sh.owners
               /\ cc_writer' = r.sh.writer
               /\ cc_history' = r.sh.history
    /\ UNCHANGED <<cc_decoder, basevars, fecvars, signvars, poolvars>>

NextConcurrent == ThreadCall \/ ThreadStep

SpecConcurrent == Init /\ [][NextConcurrent]_vars

NextFec == FecConstruct \/ FecEncode \/ FecReceive \/ FecDecode

SpecFec == Init /\ [][NextFec]_vars

NextInterleave == Interleave \/ Deinterleave

NextSecure ==
    \/ SecureConstruct
    \/ SecureFileToBitstream
    \/ SecureSupply
    \/ SecureSupplyRaw
    \/ SecureBitstreamToData

SpecSecure == Init /\ [][NextSecure]_vars

NextPayload == CreateCompactPayload \/ TruncatePayload \/ ParseCompactPayload

SpecPayload == Init /\ [][NextPayload]_vars

SpecInterleave == Init /\ [][NextInterleave]_vars

NextGrid == Construct \/ BitstreamToImage \/ ImageToBitstream

SpecGrid == Init /\ [][NextGrid]_vars

Next ==
    \/ Construct
    \/ FileToBitstreamPages
    \/ JoinPages
    \/ RenderPages
    \/ ImagesToBitstream
    \/ SupplyBitstream
    \/ BitstreamToData

Spec == Init /\ [][Next]_vars

(***************************************************************************)
(* Properties.                                                             *)
(***************************************************************************)
\* what file_to_bitstream_pages compressed: the name header and the content
CombinedData(file) ==
    ToBytes(Len(Utf8Encode(file.name)), 1) \o Utf8Encode(file.name) \o file.data

\* C1: joining the pages of file_to_bitstream_pages in order and decoding them
\* with bitstream_to_data returns the file's bytes and its name, for every
\* content (the empty one too) and every name.  All three compressors raising
\* is a fault of the run, not a content or a name; that path is C8's.
C1_NonSecureRoundTrip ==
    (ns_pc = "decoded_joined" /\ ns_raised # AlgorithmSet) =>
        /\ ns_result.status = "ok"
        /\ ns_result.data = ns_file.data
        /\ ns_result.filename = ns_file.name

C1_Witness ==
    /\ ns_pc = "decoded_joined"
    /\ ns_raised = {}
    /\ ns_file.data = <<>>
    /\ ns_file.name = <<97, 233>>
    /\ Len(ns_enc.pages) > 1
    /\ ns_result.status = "ok"

\* C3: deinterleaving an interleaved bit sequence gives the sequence back, for
\* the encoder's and for the decoder's _simple_deinterleave, at every length.
C3_InterleaveInverse ==
    il_pc = "deinterleaved" => (il_enc = il_src /\ il_dec = il_src)

C3_Witness ==
    /\ il_pc = "deinterleaved"
    /\ Len(il_src) >= 5
    /\ Len(il_src) % 3 = 2
    /\ il_mid # il_src
    /\ il_dec = il_src

\* C5: reading back the image of a bitstream b with expected length len(b)
\* gives b, for b of length 0, of length 1 and of one full page.
C5_GridRoundTrip ==
    (gr_pc = "read" /\ Len(gr_bits) \in {0, 1, EncoderBitsPerPage(conf)}) =>
        gr_read = gr_bits

\* C6: images_to_bitstream on the images of the pages, in order, returns the
\* concatenation of the pages and nothing more.
C6_MultiPageDecode ==
    ns_pc = "scanned" => ns_stream = Concat(ns_enc.pages)

\* C8: whenever _best_compression returns, its result is an algorithm id byte
\* followed by that compressor's output, which is no longer than the output
\* of any compressor that did not raise.
C8_CompressionSelectorOutput ==
    ns_enc.status = "ok" =>
        \E a \in AlgorithmSet :
            /\ ns_enc.compressed = <<AlgoId(a)>> \o Compressor(a, CombinedData(ns_file))
            /\ \A b \in AlgorithmSet \ ns_raised :
                  Len(Compressor(a, CombinedData(ns_file)))
                      <= Len(Compressor(b, CombinedData(ns_file)))

\* the first byte bitstream_to_data reads from its input, or -1 when the
\* input holds no full byte
FirstByte(bitstream) ==
    IF Len(bitstream) < 8 THEN -1 ELSE BitsValue(Slice(bitstream, 0, 8))

\* C9: when the first byte of the stream is not 0, 1 or 2, bitstream_to_data
\* fails, returns no data and runs no decompressor.
C9_UnknownCompressionId ==
    (/\ ns_pc \in {"decoded_joined", "decoded_scanned", "decoded_supplied"}
     /\ FirstByte(ns_stream) \notin {-1, 0, 1, 2}) =>
        /\ ns_result.status = "ValueError"
        /\ ns_result.data = <<>>
        /\ ns_result.attempted = "none"

\* the stream is a well-formed zlib stream with no id byte in front of it
C9_Witness ==
    /\ ns_pc \in {"decoded_joined", "decoded_supplied"}
    /\ FirstByte(ns_stream) = ZlibMagic
    /\ zlib_decompress(CoreBitsToBytes(ns_stream)).ok
    /\ ns_result.status = "ValueError"
    /\ ns_result.attempted = "none"

\* the interleaved bitstream file_to_bitstream builds for the plaintext
\* se_data; its length does not depend on the key
SecureBitstreamFor(enc, data) ==
    SecureStages(enc, fernet_encrypt(enc.cipher, data), <<>>, 0)

\* C2: with the same password on both sides, file_to_bitstream completes and
\* bitstream_to_data returns the plaintext from the bitstream it returned.
C2_SecureRoundTrip ==
    (/\ se_pc \in {"encode_returned", "encode_raised"}
     /\ se_encoder.cipher.password = se_decoder.cipher.password) =>
        /\ se_encode.status = "ok"
        /\ SecureBitstreamToDataOp(se_decoder, se_encode.bitstream)
               = [status |-> "ok", data |-> se_data]

StreamToken(enc, bitstream) ==
    _parse_compact_payload(
        zlib_decompress(
            _optimized_error_correction_decode(enc,
                _optimized_bitstream_to_bytes(Dec_simple_deinterleave(bitstream)).val)).val).data

C7_SecureCapacityCheck ==
    se_pc \in {"encode_returned", "encode_raised"} =>
        IF Len(SecureBitstreamFor(se_encoder, se_data)) > SecureMaxBits(se_encoder)
        THEN se_encode.status # "ok" /\ se_encode.bitstream = <<>>
        ELSE /\ se_encode.status = "ok"
             /\ Len(se_encode.bitstream) = Len(SecureBitstreamFor(se_encoder, se_data))

\* the number a byte string spells, most significant byte first
RECURSIVE BigEndianValue(_, _)
BigEndianValue(b, acc) ==
    IF b = <<>> THEN acc ELSE BigEndianValue(Tail(b), acc * 256 + Head(b))

\* C10: the payload is 19 + len(s) + len(c) bytes, laid out as version(1)
\* timestamp(8) original_size(4) sig_len(2) signature cipher_len(4)
\* ciphertext with big-endian integers, and parsing it gives back the
\* ciphertext, the signature and version 1.
C10_PayloadWireFormat ==
    pl_pc \in {"created", "parsed"} =>
        LET c == pl_in.encrypted_data
            sig == pl_in.signature
            n == Len(sig)
        IN  /\ Len(pl_bytes) = 19 + n + Len(c)
            /\ pl_bytes[1] = 1
            /\ BigEndianValue(SubSeq(pl_bytes, 1 + 1, 1 + 8), 0) = pl_in.timestamp
            /\ BigEndianValue(SubSeq(pl_bytes, 9 + 1, 9 + 4), 0) = Len(c)
            /\ BigEndianValue(SubSeq(pl_bytes, 13 + 1, 13 + 2), 0) = n
            /\ SubSeq(pl_bytes, 16, 15 + n) = sig
            /\ BigEndianValue(SubSeq(pl_bytes, 15 + n + 1, 15 + n + 4), 0) = Len(c)
            /\ SubSeq(pl_bytes, 20 + n, Len(pl_bytes)) = c
            /\ pl_pc = "parsed" =>
                  /\ pl_parsed.data = c
                  /\ pl_parsed.signature = sig
                  /\ pl_parsed.version = 1

C10_Witness ==
    /\ pl_pc = "parsed"
    /\ Len(pl_in.signature) = MaxField
    /\ Len(pl_in.encrypted_data) = MaxField
    /\ pl_in.timestamp = 1700000000
    /\ pl_parsed.data = pl_in.encrypted_data
    /\ pl_parsed.signature = pl_in.signature

\* the lengths a buffer declares, read where the parser reads them
DeclaredSignatureLen(b) == FromBytes(Slice(b, 13, 15))

DeclaredDataLen(b) ==
    FromBytes(Slice(b, 15 + DeclaredSignatureLen(b), 19 + DeclaredSignatureLen(b)))

\* the fixed header is incomplete, or a declared length exceeds what is left
IsTruncated(b) ==
    \/ Len(b) < 15
    \/ DeclaredSignatureLen(b) > Len(b) - 15
    \/ Len(b) < 19 + DeclaredSignatureLen(b)
    \/ DeclaredDataLen(b) > Len(b) - 19 - DeclaredSignatureLen(b)

\* C11: _parse_compact_payload does not return from a buffer whose header
\* is incomplete or whose declared signature or ciphertext length exceeds
\* the bytes remaining, and what it returns is never shorter than declared.
C11_TruncatedPayloadRejected ==
    pl_pc \in {"parsed", "parsed_cut"} =>
        /\ ~IsTruncated(pl_bytes)
        /\ Len(pl_parsed.signature) = DeclaredSignatureLen(pl_bytes)
        /\ Len(pl_parsed.data) = DeclaredDataLen(pl_bytes)

\* C12: the pages of file_to_bitstream_pages concatenate to the bitstream,
\* every page but the last holds bits_per_page bits, the last holds between
\* 1 and bits_per_page bits, and there is at least one page.
C12_Pagination ==
    (ns_pc # "unbuilt" /\ ns_enc.status = "ok") =>
        LET pages == ns_enc.pages
            bits_per_page == EncoderBitsPerPage(conf)
        IN  /\ Concat(pages) = _bytes_to_bitstream(ns_enc.compressed)
            /\ Len(pages) >= 1
            /\ \A k \in 1..(Len(pages) - 1) : Len(pages[k]) = bits_per_page
            /\ Len(pages[Len(pages)]) \in 1..bits_per_page

C12_Witness ==
    /\ ns_pc = "encoded"
    /\ ns_file.data = <<>>
    /\ Len(ns_enc.pages) >= 2
    /\ Len(ns_enc.pages[Len(ns_enc.pages)]) < EncoderBitsPerPage(conf)

\* the redundancy symbols of a ratio given in percent: max(1, floor(255 * r))
RedundancySymbols(percent) ==
    IF (255 * percent) \div 100 < 1 THEN 1 ELSE (255 * percent) \div 100

\* the number of codewords n bytes fill when each carries 255 - nsym of them
Codewords(n, nsym) == (n + (255 - nsym) - 1) \div (255 - nsym)

\* C13: _optimized_error_correction appends max(1, floor(255 * r)) symbols
\* per codeword, r = 5% below 1000 bytes, 10% from 1000 to 4999 bytes and
\* 15% from 5000 bytes on: 12, 25 and 38 symbols.
C13_FecAdaptiveRedundancy ==
    fe_pc = "encoded" =>
        LET n == Len(fe_data)
            percent == IF n < 1000 THEN 5 ELSE IF n <= 4999 THEN 10 ELSE 15
            nsym == RedundancySymbols(percent)
        IN  /\ nsym = (IF n < 1000 THEN 12 ELSE IF n <= 4999 THEN 25 ELSE 38)
            /\ Len(fe_out) = n + nsym * Codewords(n, nsym)
            /\ fe_out = rs_encode(fe_data, nsym)

C13_Witness ==
    /\ fe_pc = "encoded"
    /\ Len(fe_data) = 5000
    /\ fe_encoder.error_correction_level = 20
    /\ Len(fe_out) = 5000 + 38 * 24

\* C14: _optimized_error_correction_decode returns the result of the
\* first of the candidates 5%, 10%, 15%, tried in that order, whose
\* correction succeeds, and its input unchanged when all three fail.
C14_FecDecodeTrialLoop ==
    fe_pc = "decoded" =>
        LET r5 == rs_decode(fe_in, 12)
            r10 == rs_decode(fe_in, 25)
            r15 == rs_decode(fe_in, 38)
        IN  fe_dec = IF r5.ok THEN r5.val
                     ELSE IF r10.ok THEN r10.val
                     ELSE IF r15.ok THEN r15.val
                     ELSE fe_in

\* every candidate failed on damaged bytes, and the call returned them
C14_Witness ==
    /\ fe_pc = "decoded"
    /\ fe_in # fe_out
    /\ ~rs_decode(fe_in, 12).ok /\ ~rs_decode(fe_in, 25).ok /\ ~rs_decode(fe_in, 38).ok
    /\ fe_dec = fe_in

\* C15: the error_correction_level given to the encoder is the redundancy
\* ratio that FEC encode applies, whatever the size of the input.
C15_FecRedundancyOverride ==
    fe_pc = "encoded" =>
        fe_out = rs_encode(fe_data, RedundancySymbols(fe_encoder.error_correction_level))

\* C16: the decoder's verification succeeds on a valid signature of any of
\* the three schemes _optimized_sign_data chooses (the signature as made,
\* over the data as signed, under the matching public key).
C16_SignatureSchemeAcceptance ==
    (/\ sg_pc = "verified"
     /\ sg_encoder.has_private_key
     /\ sg_decoder.public_key = sg_encoder.private_key
     /\ sg_seen = [data |-> sg_data, signature |-> sg_signature]) =>
        sg_verified

\* C17: without a public key, or with an empty signature, verification
\* returns success whatever the data.
C17_PermissiveVerification ==
    (sg_pc = "verified" /\ (~sg_decoder.has_public_key \/ sg_seen.signature = <<>>)) =>
        sg_verified

\* a signature over other data than the data seen, and no key to check it
C17_Witness ==
    /\ sg_pc = "verified"
    /\ ~sg_decoder.has_public_key
    /\ sg_seen.signature # <<>>
    /\ sg_seen.data # sg_data
    /\ sg_verified

\* C18: when the token decrypts and the signature does not verify,
\* bitstream_to_data still returns the decrypted data and raises nothing.
C18_SignatureFailureNonFatal ==
    (/\ se_pc = "decoded"
     /\ fernet_decrypt(se_decoder.cipher, StreamToken(se_encoder, se_stream)).ok
     /\ ~_verify_signature(se_decoder, se_source.data, se_source.signature)) =>
        se_result = [status |-> "ok", data |-> se_source.data]

\* C19: a secure encode runs its stages in the order Compressing,
\* Encrypting, Signing, PayloadPacking, ECCEncoding, Interleaving,
\* GridRendering, Done.
C19_EncodeStageOrder ==
    se_pc \in {"encode_returned", "encode_raised"} =>
        se_encode.stages =
            <<"Compressing", "Encrypting", "Signing", "PayloadPacking", "ECCEncoding",
              "Interleaving", "GridRendering", "Done">>

\* C20: whatever get_object, return_object and cleanup_pools calls came
\* before, _optimized_bytes_to_bitstream returns what it returns on a
\* bytearray allocated fresh for the call.
C20_PoolIndependence ==
    mm_pc = "converted" =>
        mm_result = _optimized_bytes_to_bitstream(FreshBytearray(Len(mm_data) * 8), mm_data)

\* objects were borrowed and given back before the conversion ran
C20_Witness ==
    /\ mm_pc = "converted"
    /\ mm_data # <<>>
    /\ mm_result.status = "ok"
    /\ \E i \in 1..(Len(mm_calls) - 1) :
           mm_calls[i] = "get" /\ mm_calls[i + 1] = "return"

C30_PoolReuse ==
    [][/\ (mm_calls' = Append(mm_calls, "return") /\ Len(mm_pool) < max_pool_size)
           => Len(mm_pool') = Len(mm_pool) + 1
       /\ (mm_calls' = Append(mm_calls, "get") /\ mm_calls # <<>>
               /\ mm_calls[Len(mm_calls)] = "return")
           => Len(mm_pool') = Len(mm_pool) - 1]_vars

\* the symbol count of the first candidate whose decode of data succeeds,
\* 0 when none does
FirstSucceeding(data) ==
    IF rs_decode(data, 12).ok THEN 12
    ELSE IF rs_decode(data, 25).ok THEN 25
    ELSE IF rs_decode(data, 38).ok THEN 38 ELSE 0

\* C25: on the unchanged output of _optimized_error_correction, the first
\* candidate that succeeds in _optimized_error_correction_decode is the
\* one the encoder used for the input's size class, and the decode returns
\* the bytes that were encoded.
C25_FecRatioAgreement ==
    (fe_pc = "decoded" /\ fe_in = fe_out) =>
        /\ FirstSucceeding(fe_in) =
               (IF Len(fe_data) < 1000 THEN 12 ELSE IF Len(fe_data) < 5000 THEN 25 ELSE 38)
        /\ fe_dec = fe_data

\* the bits of s at the indices 0, 3, 6, ..., then those at 1, 4, 7, ...,
\* then those at 2, 5, 8, ...: groups of ceil(n/3), ceil((n-1)/3) and
\* floor(n/3) bits
StrideLayout(s) ==
    LET n == Len(s)
        g0 == (n + 2) \div 3
        g1 == (n + 1) \div 3
    IN  [p \in 1..n |->
            IF p <= g0 THEN s[3 * (p - 1) + 1]
            ELSE IF p <= g0 + g1 THEN s[3 * (p - g0 - 1) + 2]
            ELSE s[3 * (p - g0 - g1 - 1) + 3]]

\* C29: _simple_interleave(s) has the length of s and holds the bits of s
\* at the indices 0, 3, 6, ... followed by those at 1, 4, 7, ... and those at
\* 2, 5, 8, ...; a sequence of length 0 or 1 comes back unchanged.
C29_InterleaveLayout ==
    il_pc # "idle" =>
        /\ Len(il_mid) = Len(il_src)
        /\ il_mid = StrideLayout(il_src)
        /\ Len(il_src) <= 1 => il_mid = il_src

\* all three groups hold at least two bits, of unequal sizes, and the
\* interleaving moved bits
C29_Witness ==
    /\ il_pc = "interleaved"
    /\ Len(il_src) = 7
    /\ il_mid # il_src
    /\ il_mid = <<il_src[1], il_src[4], il_src[7], il_src[2], il_src[5], il_src[3], il_src[6]>>

\* the iteration count the plaintext's length calls for
AdaptiveIterations(n) ==
    IF n < 1000 THEN 1000 ELSE IF n < 10000 THEN 5000 ELSE 10000

\* C23: the key the encoder encrypts a plaintext with is derived with the
\* iteration count of that plaintext's length: 1000 below 1000 bytes, 5000
\* below 10000 bytes, 10000 from there on.
C23_AdaptiveKdfIterations ==
    se_pc \in {"encode_returned", "encode_raised"} =>
        /\ se_encode.status # "AttributeError"
        /\ se_encoder.cached_cipher =
               DeriveKey(se_encoder.cipher.password, AdaptiveIterations(Len(se_data)))

\* C24: an encoder and a decoder built with the same password hold the same
\* key: same salt, same iteration count.
C24_KeyAgreement ==
    (se_pc # "unbuilt" /\ se_encoder.cipher.password = se_decoder.cipher.password) =>
        /\ se_encoder.cipher = se_decoder.cipher
        /\ se_encoder.cached_cipher \in {NoKey, se_decoder.cipher}

\* the payload a bitstream carries, taken out by the inverse of each stage
StreamPayload(enc, bitstream) ==
    zlib_decompress(
        _optimized_error_correction_decode(enc,
            _optimized_bitstream_to_bytes(Dec_simple_deinterleave(bitstream)).val)).val

\* C27: the original_size field of a payload the encoder's stages built is
\* the length of the plaintext, and the ciphertext read from the payload is
\* the whole token, whatever original_size says.
C27_OriginalSizeField ==
    se_pc \in {"supplied", "decoded"} =>
        LET parsed == _parse_compact_payload(StreamPayload(se_encoder, se_stream))
        IN  /\ parsed.original_size = Len(se_source.data)
            /\ parsed.data = fernet_encrypt(
                                 DeriveKey(se_source.password, se_source.iterations),
                                 se_source.data)

\* C28: bitstream_to_data on any bitstream, of any length, returns data or
\* raises ValueError; nothing else escapes.
C28_DecodeFailureShortCircuit ==
    se_pc \in {"decoded", "decoded_raw"} => se_result.status \in {"ok", "ValueError"}

\* the page grid of a configuration: columns, rows and the corner of cell 0
GridCols(cfg) == IF cfg.pretty_mode THEN PrettyCols(cfg) ELSE cfg.bits_per_row

GridRows(cfg) == IF cfg.pretty_mode THEN PrettyRows(cfg) ELSE cfg.max_rows

GridOrigin(cfg) == MarginOf(cfg) + border_width

\* the decoder's sample of cell k of the grid reads as bit 1
CellReadsOne(cfg, img, k) ==
    CellIsDark(img, GridOrigin(cfg), GridOrigin(cfg),
               GridOrigin(cfg) + GridCols(cfg) * cfg.cell_size,
               GridOrigin(cfg) + GridRows(cfg) * cfg.cell_size,
               (k % GridCols(cfg)) * cfg.cell_size,
               (k \div GridCols(cfg)) * cfg.cell_size, cfg.cell_size)

\* every pixel of the sheet inside the region of cell k is white
CellIsWhite(cfg, img, k) ==
    \A dx \in 0..(cfg.cell_size - 1), dy \in 0..(cfg.cell_size - 1) :
        LET px == GridOrigin(cfg) + (k % GridCols(cfg)) * cfg.cell_size + dx
            py == GridOrigin(cfg) + (k \div GridCols(cfg)) * cfg.cell_size + dy
        IN  (px < SheetWidth /\ py < SheetHeight) => img[py + 1][px + 1] = 255

\* C26: in the image of a bitstream b, every cell of the page grid with an
\* index from len(b) on is white, and the decoder's sample of it reads 0;
\* the cells of the last column and of the last row included.
C26_UnusedCellsBackground ==
    gr_pc \in {"rendered", "read"} =>
        \A k \in Len(gr_bits)..(GridCols(conf) * GridRows(conf) - 1) :
            /\ CellIsWhite(conf, gr_image, k)
            /\ ~CellReadsOne(conf, gr_image, k)

\* what a call returns when no other call runs: the whole method applied to
\* the objects as constructed
AloneResult(call) ==
    IF call.kind = "encode"
    THEN LET r == SecureFileToBitstreamOp(
                      SecureEncoderInit("correct", NoKeyFile, 3500, 296, 15),
                      call.data, call.time)
         IN  [status |-> r.status, val |-> r.bitstream]
    ELSE LET r == SecureBitstreamToDataOp(
                      SecureDecoderInit("correct", NoKeyFile, 3500, 296, 15), call.stream)
         IN  [status |-> r.status, val |-> r.data]

====
